---------------------------- MODULE Spec2Model ----------------------------
(***************************************************************************)
(* A model of the Mantlememo marketplace ledger                            *)
(* (src/app/contracts/contract.sol, lines 1-561).                          *)
(*                                                                         *)
(* Storage is one TLA+ variable per Solidity state variable.  Every        *)
(* external function is an operator from the storage it is called on to    *)
(* the storage it leaves at the point it hands control to a foreign        *)
(* account (the low-level call{value: ...}), plus an operator for the      *)
(* statements that follow that call.  The EVM's part is modelled around    *)
(* them: msg.value moves when the call starts, a revert restores the       *)
(* storage and the balances the call started from, and the account that    *)
(* receives a value transfer runs code of its own which may call the       *)
(* ledger again, accept, or refuse.                                        *)
(*                                                                         *)
(* Amounts are counted in units of 10^14 wei (0.0001 ether), the smallest  *)
(* amount any limit of the contract mentions, so that all limits are       *)
(* integers TLC can hold.  Times are block timestamps in seconds.          *)
(***************************************************************************)
EXTENDS Integers, Sequences, FiniteSets, TLC

-----------------------------------------------------------------------------
(* 1. CONSTANTS & CONFIGURATION (contract.sol 24-33), in units of 10^14 wei *)

MAX_PRICE_PER_QUERY == 10000
MIN_PRICE_PER_QUERY == 1
MAX_STAKE_AMOUNT == 1000000
MIN_STAKE_AMOUNT == 1
MIN_STRING_LENGTH == 1
LOCK_PERIOD_SECONDS == 604800

-----------------------------------------------------------------------------
(* Bounds of the model *)

\* successful or in-flight operations per behaviour (the history logs grow
\* by one with each)
MaxOps == 4
\* depth of the call stack: calls waiting in a value transfer
MaxDepth == 2
\* the clock advances at most this many times, a lock period each time
MaxPeriods == 1

TimeStep == LOCK_PERIOD_SECONDS
StartTime == 2 * LOCK_PERIOD_SECONDS
InitialWallet == MAX_STAKE_AMOUNT + MIN_STAKE_AMOUNT

\* Accounts.  address(0) is the default value of an address in storage.
Addresses == {"A", "B"}
ZeroAddress == "0x0"

\* The accounts that register agents and create capsules; every account
\* calls every other function
Registrants == {"A"}
Creators == {"A"}

\* Inputs of the operations
CapsuleIds == {"cap1"}
AgentIds == {"agent1"}
Names == {"n"}
Texts == {"t"}
Prices == {MIN_PRICE_PER_QUERY - 1, MIN_PRICE_PER_QUERY, MIN_PRICE_PER_QUERY + 1,
           MAX_PRICE_PER_QUERY, MAX_PRICE_PER_QUERY + 1}
StakeAmounts == {MIN_STAKE_AMOUNT - 1, MIN_STAKE_AMOUNT, MAX_STAKE_AMOUNT + 1}
UnstakeAmounts == {0, 1, 2}
Payments == {0, 1, 2}

\* every string used as an id, the domain of the keyed mappings
Ids == CapsuleIds \cup AgentIds

-----------------------------------------------------------------------------
(* State *)

VARIABLES
    agents,                      \* mapping(bytes32 => Agent)
    capsules,                    \* mapping(bytes32 => Capsule)
    earnings,                    \* mapping(bytes32 => Earnings)
    stakes,                      \* mapping(bytes32 => mapping(address => Staking))
    ownerAgents,                 \* mapping(address => string[])
    ownerCapsules,               \* mapping(address => string[])
    agentRegisteredHistory,
    capsuleCreatedHistory,
    stakedOnCapsuleHistory,
    unstakedFromCapsuleHistory,
    priceUpdatedHistory,
    earningsWithdrawnHistory,
    capsuleQueriedHistory,
    events,                      \* the events emitted, in order
    \* credited, paidOut and creditedSince below are the books an auditor
    \* keeps beside the ledger: they are written where a price is credited
    \* (line 408) or earnings are sent (line 449), and a revert undoes them
    \* with everything else.
    balance,                     \* address(this).balance
    wallet,                      \* the balance of every other account
    credited,                    \* per capsule key: prices credited by queryCapsule
    paidOut,                     \* per capsule key: value sent by withdrawEarnings
    creditedSince,               \* per capsule key: prices credited since the
                                 \* last withdrawEarnings
    now,                         \* block.timestamp
    stack,                       \* calls waiting in a value transfer, innermost last
    ret                          \* the call made last and how it ended

storage == <<agents, capsules, earnings, stakes, ownerAgents, ownerCapsules,
             agentRegisteredHistory, capsuleCreatedHistory, stakedOnCapsuleHistory,
             unstakedFromCapsuleHistory, priceUpdatedHistory,
             earningsWithdrawnHistory, capsuleQueriedHistory, events, balance,
             wallet, credited, paidOut, creditedSince>>

vars == <<agents, capsules, earnings, stakes, ownerAgents, ownerCapsules,
          agentRegisteredHistory, capsuleCreatedHistory, stakedOnCapsuleHistory,
          unstakedFromCapsuleHistory, priceUpdatedHistory,
          earningsWithdrawnHistory, capsuleQueriedHistory, events, balance,
          wallet, credited, paidOut, creditedSince, now, stack, ret>>

\* a key that is derived from the id alone
keccak256_IdOnly(addr, id) == <<"A", id>>

\* keccak256(abi.encodePacked(address, string)): the address has a fixed
\* width, so the packed encoding is injective and the key is the pair.
keccak256(addr, id) == <<addr, id>>

Keys == Addresses \X Ids

\* The value of a storage slot never written
NoAgent == [owner |-> ZeroAddress, agentId |-> "", name |-> "", displayName |-> "",
            platform |-> "", createdAt |-> 0, reputation |-> 0, exists |-> FALSE]
NoCapsule == [creator |-> ZeroAddress, capsuleId |-> "", name |-> "",
              description |-> "", category |-> "", price |-> 0, totalStake |-> 0,
              createdAt |-> 0, updatedAt |-> 0, earnings |-> 0, exists |-> FALSE]
NoStaking == [stakedAt |-> 0, lockUntil |-> 0, exists |-> FALSE]
NoEarnings == [totalEarnings |-> 0, queryCount |-> 0, lastUpdated |-> 0]

\* Everything a revert restores: the storage, the balances, the events
World ==
    [agents |-> agents, capsules |-> capsules, earnings |-> earnings,
     stakes |-> stakes, ownerAgents |-> ownerAgents, ownerCapsules |-> ownerCapsules,
     agentRegisteredHistory |-> agentRegisteredHistory,
     capsuleCreatedHistory |-> capsuleCreatedHistory,
     stakedOnCapsuleHistory |-> stakedOnCapsuleHistory,
     unstakedFromCapsuleHistory |-> unstakedFromCapsuleHistory,
     priceUpdatedHistory |-> priceUpdatedHistory,
     earningsWithdrawnHistory |-> earningsWithdrawnHistory,
     capsuleQueriedHistory |-> capsuleQueriedHistory,
     events |-> events, balance |-> balance, wallet |-> wallet,
     credited |-> credited, paidOut |-> paidOut,
     creditedSince |-> creditedSince]

\* The storage after the call: w becomes the state
Commit(w) ==
    /\ agents' = w.agents
    /\ capsules' = w.capsules
    /\ earnings' = w.earnings
    /\ stakes' = w.stakes
    /\ ownerAgents' = w.ownerAgents
    /\ ownerCapsules' = w.ownerCapsules
    /\ agentRegisteredHistory' = w.agentRegisteredHistory
    /\ capsuleCreatedHistory' = w.capsuleCreatedHistory
    /\ stakedOnCapsuleHistory' = w.stakedOnCapsuleHistory
    /\ unstakedFromCapsuleHistory' = w.unstakedFromCapsuleHistory
    /\ priceUpdatedHistory' = w.priceUpdatedHistory
    /\ earningsWithdrawnHistory' = w.earningsWithdrawnHistory
    /\ capsuleQueriedHistory' = w.capsuleQueriedHistory
    /\ events' = w.events
    /\ balance' = w.balance
    /\ wallet' = w.wallet
    /\ credited' = w.credited
    /\ paidOut' = w.paidOut
    /\ creditedSince' = w.creditedSince

\* Outcomes of the part of a function that runs before its value transfer:
\* a revert with an error, or the storage reached and the value to send to
\* msg.sender next (0: no transfer, the function runs to its end).
Revert(error) == [err |-> error, pay |-> 0]
Proceed(w, value) == [err |-> "ok", w |-> w, pay |-> value]


-----------------------------------------------------------------------------
(* 7. CORE FUNCTIONS.  w is the storage the function runs on (msg.value    *)
(* already received), sender is msg.sender, timestamp is block.timestamp.  *)

\* registerAgent that writes the record whether or not the key is taken
registerAgent_Overwrites(w, sender, _agentId, _name, _displayName, _platform, timestamp) ==
    LET agentKey == keccak256(sender, _agentId)
    IN  IF Len(_agentId) < MIN_STRING_LENGTH THEN Revert("EmptyString")
        ELSE IF Len(_name) < MIN_STRING_LENGTH THEN Revert("EmptyString")
        ELSE IF Len(_agentId) > 32 THEN Revert("InvalidMetadataLength")
        ELSE IF Len(_name) > 128 THEN Revert("InvalidMetadataLength")
        ELSE Proceed(
            [w EXCEPT
                !.agents[agentKey] =
                    [owner |-> sender, agentId |-> _agentId, name |-> _name,
                     displayName |-> _displayName, platform |-> _platform,
                     createdAt |-> timestamp, reputation |-> 10000, exists |-> TRUE],
                !.ownerAgents[sender] = Append(@, _agentId),
                !.events = Append(@, [name |-> "AgentRegistered", who |-> sender,
                                      id |-> _agentId, amount |-> 0]),
                !.agentRegisteredHistory =
                    Append(@, [owner |-> sender, agentId |-> _agentId,
                               timestamp |-> timestamp])],
            0)

\* registerAgent (contract.sol 198-239)
registerAgent(w, sender, _agentId, _name, _displayName, _platform, timestamp) ==
    LET agentKey == keccak256(sender, _agentId)
    IN  IF Len(_agentId) < MIN_STRING_LENGTH THEN Revert("EmptyString")
        ELSE IF Len(_name) < MIN_STRING_LENGTH THEN Revert("EmptyString")
        ELSE IF Len(_agentId) > 32 THEN Revert("InvalidMetadataLength")
        ELSE IF Len(_name) > 128 THEN Revert("InvalidMetadataLength")
        ELSE IF w.agents[agentKey].exists THEN Revert("Agent already exists")
        ELSE Proceed(
            [w EXCEPT
                !.agents[agentKey] =
                    [owner |-> sender, agentId |-> _agentId, name |-> _name,
                     displayName |-> _displayName, platform |-> _platform,
                     createdAt |-> timestamp, reputation |-> 10000, exists |-> TRUE],
                !.ownerAgents[sender] = Append(@, _agentId),
                !.events = Append(@, [name |-> "AgentRegistered", who |-> sender,
                                      id |-> _agentId, amount |-> 0]),
                !.agentRegisteredHistory =
                    Append(@, [owner |-> sender, agentId |-> _agentId,
                               timestamp |-> timestamp])],
            0)

\* createCapsule that writes the record whether or not the key is taken
createCapsule_Overwrites(w, sender, _capsuleId, _name, _description, _category, _price, timestamp) ==
    LET capsuleKey == keccak256(sender, _capsuleId)
    IN  IF Len(_capsuleId) < MIN_STRING_LENGTH THEN Revert("EmptyString")
        ELSE IF Len(_capsuleId) > 32 THEN Revert("InvalidMetadataLength")
        ELSE IF _price < MIN_PRICE_PER_QUERY THEN Revert("InvalidPrice")
        ELSE IF _price > MAX_PRICE_PER_QUERY THEN Revert("PriceTooHigh")
        ELSE Proceed(
            [w EXCEPT
                !.capsules[capsuleKey] =
                    [creator |-> sender, capsuleId |-> _capsuleId, name |-> _name,
                     description |-> _description, category |-> _category,
                     price |-> _price, totalStake |-> 0, earnings |-> 0,
                     createdAt |-> timestamp, updatedAt |-> timestamp,
                     exists |-> TRUE],
                !.ownerCapsules[sender] = Append(@, _capsuleId),
                !.events = Append(@, [name |-> "CapsuleCreated", who |-> sender,
                                      id |-> _capsuleId, amount |-> 0]),
                !.capsuleCreatedHistory =
                    Append(@, [creator |-> sender, capsuleId |-> _capsuleId,
                               timestamp |-> timestamp])],
            0)

\* createCapsule that looks at the price before it looks at the id
createCapsule_PriceFirst(w, sender, _capsuleId, _name, _description, _category, _price, timestamp) ==
    LET capsuleKey == keccak256(sender, _capsuleId)
    IN  IF _price < MIN_PRICE_PER_QUERY THEN Revert("InvalidPrice")
        ELSE IF _price > MAX_PRICE_PER_QUERY THEN Revert("PriceTooHigh")
        ELSE IF Len(_capsuleId) < MIN_STRING_LENGTH THEN Revert("EmptyString")
        ELSE IF Len(_capsuleId) > 32 THEN Revert("InvalidMetadataLength")
        ELSE IF w.capsules[capsuleKey].exists THEN Revert("Capsule already exists")
        ELSE Proceed(
            [w EXCEPT
                !.capsules[capsuleKey] =
                    [creator |-> sender, capsuleId |-> _capsuleId, name |-> _name,
                     description |-> _description, category |-> _category,
                     price |-> _price, totalStake |-> 0, earnings |-> 0,
                     createdAt |-> timestamp, updatedAt |-> timestamp,
                     exists |-> TRUE],
                !.ownerCapsules[sender] = Append(@, _capsuleId),
                !.events = Append(@, [name |-> "CapsuleCreated", who |-> sender,
                                      id |-> _capsuleId, amount |-> 0]),
                !.capsuleCreatedHistory =
                    Append(@, [creator |-> sender, capsuleId |-> _capsuleId,
                               timestamp |-> timestamp])],
            0)

\* createCapsule that leaves the capsule out of its creator's list
createCapsule_Unlisted(w, sender, _capsuleId, _name, _description, _category, _price, timestamp) ==
    LET capsuleKey == keccak256(sender, _capsuleId)
    IN  IF Len(_capsuleId) < MIN_STRING_LENGTH THEN Revert("EmptyString")
        ELSE IF Len(_capsuleId) > 32 THEN Revert("InvalidMetadataLength")
        ELSE IF _price < MIN_PRICE_PER_QUERY THEN Revert("InvalidPrice")
        ELSE IF _price > MAX_PRICE_PER_QUERY THEN Revert("PriceTooHigh")
        ELSE IF w.capsules[capsuleKey].exists THEN Revert("Capsule already exists")
        ELSE Proceed(
            [w EXCEPT
                !.capsules[capsuleKey] =
                    [creator |-> sender, capsuleId |-> _capsuleId, name |-> _name,
                     description |-> _description, category |-> _category,
                     price |-> _price, totalStake |-> 0, earnings |-> 0,
                     createdAt |-> timestamp, updatedAt |-> timestamp,
                     exists |-> TRUE],
                !.events = Append(@, [name |-> "CapsuleCreated", who |-> sender,
                                      id |-> _capsuleId, amount |-> 0]),
                !.capsuleCreatedHistory =
                    Append(@, [creator |-> sender, capsuleId |-> _capsuleId,
                               timestamp |-> timestamp])],
            0)

\* createCapsule (contract.sol 246-284)
createCapsule(w, sender, _capsuleId, _name, _description, _category, _price, timestamp) ==
    LET capsuleKey == keccak256(sender, _capsuleId)
    IN  IF Len(_capsuleId) < MIN_STRING_LENGTH THEN Revert("EmptyString")
        ELSE IF Len(_capsuleId) > 32 THEN Revert("InvalidMetadataLength")
        ELSE IF _price < MIN_PRICE_PER_QUERY THEN Revert("InvalidPrice")
        ELSE IF _price > MAX_PRICE_PER_QUERY THEN Revert("PriceTooHigh")
        ELSE IF w.capsules[capsuleKey].exists THEN Revert("Capsule already exists")
        ELSE Proceed(
            [w EXCEPT
                !.capsules[capsuleKey] =
                    [creator |-> sender, capsuleId |-> _capsuleId, name |-> _name,
                     description |-> _description, category |-> _category,
                     price |-> _price, totalStake |-> 0, earnings |-> 0,
                     createdAt |-> timestamp, updatedAt |-> timestamp,
                     exists |-> TRUE],
                !.ownerCapsules[sender] = Append(@, _capsuleId),
                !.events = Append(@, [name |-> "CapsuleCreated", who |-> sender,
                                      id |-> _capsuleId, amount |-> 0]),
                !.capsuleCreatedHistory =
                    Append(@, [creator |-> sender, capsuleId |-> _capsuleId,
                               timestamp |-> timestamp])],
            0)

\* stake with a top-up that leaves lockUntil as the first deposit set it
stake_KeepsLock(w, sender, _capsuleId, amount, timestamp) ==
    LET capsuleKey == keccak256(sender, _capsuleId)
        capsule == w.capsules[capsuleKey]
        userStake == w.stakes[capsuleKey][sender]
    IN  IF amount < MIN_STAKE_AMOUNT THEN Revert("InsufficientPayment")
        ELSE IF amount > MAX_STAKE_AMOUNT THEN Revert("StakeTooHigh")
        ELSE IF ~capsule.exists THEN Revert("CapsuleNotFound")
        ELSE IF capsule.creator # sender THEN Revert("Unauthorized")
        ELSE Proceed(
            [w EXCEPT
                !.capsules[capsuleKey].totalStake = @ + amount,
                !.capsules[capsuleKey].updatedAt = timestamp,
                !.stakes[capsuleKey][sender] =
                    IF ~userStake.exists
                    THEN [stakedAt |-> timestamp,
                          lockUntil |-> timestamp + LOCK_PERIOD_SECONDS,
                          exists |-> TRUE]
                    ELSE userStake,
                !.events = Append(@, [name |-> "StakedOnCapsule", who |-> sender,
                                      id |-> _capsuleId, amount |-> amount]),
                !.stakedOnCapsuleHistory =
                    Append(@, [staker |-> sender, capsuleId |-> _capsuleId,
                               amount |-> amount, timestamp |-> timestamp])],
            0)

\* stake that turns down a deposit of exactly MAX_STAKE_AMOUNT
stake_MaxExclusive(w, sender, _capsuleId, amount, timestamp) ==
    LET capsuleKey == keccak256(sender, _capsuleId)
        capsule == w.capsules[capsuleKey]
        userStake == w.stakes[capsuleKey][sender]
    IN  IF amount < MIN_STAKE_AMOUNT THEN Revert("InsufficientPayment")
        ELSE IF amount >= MAX_STAKE_AMOUNT THEN Revert("StakeTooHigh")
        ELSE IF ~capsule.exists THEN Revert("CapsuleNotFound")
        ELSE IF capsule.creator # sender THEN Revert("Unauthorized")
        ELSE Proceed(
            [w EXCEPT
                !.capsules[capsuleKey].totalStake = @ + amount,
                !.capsules[capsuleKey].updatedAt = timestamp,
                !.stakes[capsuleKey][sender] =
                    IF ~userStake.exists
                    THEN [stakedAt |-> timestamp,
                          lockUntil |-> timestamp + LOCK_PERIOD_SECONDS,
                          exists |-> TRUE]
                    ELSE [userStake EXCEPT
                             !.lockUntil = timestamp + LOCK_PERIOD_SECONDS],
                !.events = Append(@, [name |-> "StakedOnCapsule", who |-> sender,
                                      id |-> _capsuleId, amount |-> amount]),
                !.stakedOnCapsuleHistory =
                    Append(@, [staker |-> sender, capsuleId |-> _capsuleId,
                               amount |-> amount, timestamp |-> timestamp])],
            0)

\* stake that does not look for the capsule
stake_AnyCapsule(w, sender, _capsuleId, amount, timestamp) ==
    LET capsuleKey == keccak256(sender, _capsuleId)
        capsule == w.capsules[capsuleKey]
        userStake == w.stakes[capsuleKey][sender]
    IN  IF amount < MIN_STAKE_AMOUNT THEN Revert("InsufficientPayment")
        ELSE IF amount > MAX_STAKE_AMOUNT THEN Revert("StakeTooHigh")
        ELSE Proceed(
            [w EXCEPT
                !.capsules[capsuleKey].totalStake = @ + amount,
                !.capsules[capsuleKey].updatedAt = timestamp,
                !.stakes[capsuleKey][sender] =
                    IF ~userStake.exists
                    THEN [stakedAt |-> timestamp,
                          lockUntil |-> timestamp + LOCK_PERIOD_SECONDS,
                          exists |-> TRUE]
                    ELSE [userStake EXCEPT
                             !.lockUntil = timestamp + LOCK_PERIOD_SECONDS],
                !.events = Append(@, [name |-> "StakedOnCapsule", who |-> sender,
                                      id |-> _capsuleId, amount |-> amount]),
                !.stakedOnCapsuleHistory =
                    Append(@, [staker |-> sender, capsuleId |-> _capsuleId,
                               amount |-> amount, timestamp |-> timestamp])],
            0)

\* stake (contract.sol 291-341); amount is msg.value
stake(w, sender, _capsuleId, amount, timestamp) ==
    LET capsuleKey == keccak256(sender, _capsuleId)
        capsule == w.capsules[capsuleKey]
        userStake == w.stakes[capsuleKey][sender]
    IN  IF amount < MIN_STAKE_AMOUNT THEN Revert("InsufficientPayment")
        ELSE IF amount > MAX_STAKE_AMOUNT THEN Revert("StakeTooHigh")
        ELSE IF ~capsule.exists THEN Revert("CapsuleNotFound")
        ELSE IF capsule.creator # sender THEN Revert("Unauthorized")
        ELSE Proceed(
            [w EXCEPT
                !.capsules[capsuleKey].totalStake = @ + amount,
                !.capsules[capsuleKey].updatedAt = timestamp,
                !.stakes[capsuleKey][sender] =
                    IF ~userStake.exists
                    THEN [stakedAt |-> timestamp,
                          lockUntil |-> timestamp + LOCK_PERIOD_SECONDS,
                          exists |-> TRUE]
                    ELSE [userStake EXCEPT
                             !.lockUntil = timestamp + LOCK_PERIOD_SECONDS],
                !.events = Append(@, [name |-> "StakedOnCapsule", who |-> sender,
                                      id |-> _capsuleId, amount |-> amount]),
                !.stakedOnCapsuleHistory =
                    Append(@, [staker |-> sender, capsuleId |-> _capsuleId,
                               amount |-> amount, timestamp |-> timestamp])],
            0)

\* unstake without the check of the lock period
unstake_NoLock(w, sender, _capsuleId, _amount, timestamp) ==
    LET capsuleKey == keccak256(sender, _capsuleId)
        capsule == w.capsules[capsuleKey]
        userStake == w.stakes[capsuleKey][sender]
    IN  IF _amount = 0 THEN Revert("InsufficientPayment")
        ELSE IF ~capsule.exists THEN Revert("CapsuleNotFound")
        ELSE IF ~userStake.exists \/ capsule.totalStake < _amount
             THEN Revert("InsufficientStake")
        ELSE Proceed(
            [w EXCEPT
                !.capsules[capsuleKey].totalStake = @ - _amount,
                !.capsules[capsuleKey].updatedAt = timestamp],
            _amount)

\* unstake that is still locked at the second lockUntil names
unstake_LockInclusive(w, sender, _capsuleId, _amount, timestamp) ==
    LET capsuleKey == keccak256(sender, _capsuleId)
        capsule == w.capsules[capsuleKey]
        userStake == w.stakes[capsuleKey][sender]
    IN  IF _amount = 0 THEN Revert("InsufficientPayment")
        ELSE IF ~capsule.exists THEN Revert("CapsuleNotFound")
        ELSE IF ~userStake.exists \/ capsule.totalStake < _amount
             THEN Revert("InsufficientStake")
        ELSE IF timestamp <= userStake.lockUntil THEN Revert("StakeLocked")
        ELSE Proceed(
            [w EXCEPT
                !.capsules[capsuleKey].totalStake = @ - _amount,
                !.capsules[capsuleKey].updatedAt = timestamp],
            _amount)

\* unstake that sends the value and leaves totalStake as it was
unstake_KeepsTotalStake(w, sender, _capsuleId, _amount, timestamp) ==
    LET capsuleKey == keccak256(sender, _capsuleId)
        capsule == w.capsules[capsuleKey]
        userStake == w.stakes[capsuleKey][sender]
    IN  IF _amount = 0 THEN Revert("InsufficientPayment")
        ELSE IF ~capsule.exists THEN Revert("CapsuleNotFound")
        ELSE IF ~userStake.exists \/ capsule.totalStake < _amount
             THEN Revert("InsufficientStake")
        ELSE IF timestamp < userStake.lockUntil THEN Revert("StakeLocked")
        ELSE Proceed(
            [w EXCEPT
                !.capsules[capsuleKey].updatedAt = timestamp],
            _amount)

\* unstake that stamps the capsule with the time of the deposit
unstake_StampsStakedAt(w, sender, _capsuleId, _amount, timestamp) ==
    LET capsuleKey == keccak256(sender, _capsuleId)
        capsule == w.capsules[capsuleKey]
        userStake == w.stakes[capsuleKey][sender]
    IN  IF _amount = 0 THEN Revert("InsufficientPayment")
        ELSE IF ~capsule.exists THEN Revert("CapsuleNotFound")
        ELSE IF ~userStake.exists \/ capsule.totalStake < _amount
             THEN Revert("InsufficientStake")
        ELSE IF timestamp < userStake.lockUntil THEN Revert("StakeLocked")
        ELSE Proceed(
            [w EXCEPT
                !.capsules[capsuleKey].totalStake = @ - _amount,
                !.capsules[capsuleKey].updatedAt = userStake.stakedAt],
            _amount)

\* unstake that deletes the stake record when the stake is down to zero
unstake_DeletesEmptyRecord(w, sender, _capsuleId, _amount, timestamp) ==
    LET capsuleKey == keccak256(sender, _capsuleId)
        capsule == w.capsules[capsuleKey]
        userStake == w.stakes[capsuleKey][sender]
    IN  IF _amount = 0 THEN Revert("InsufficientPayment")
        ELSE IF ~capsule.exists THEN Revert("CapsuleNotFound")
        ELSE IF ~userStake.exists \/ capsule.totalStake < _amount
             THEN Revert("InsufficientStake")
        ELSE IF timestamp < userStake.lockUntil THEN Revert("StakeLocked")
        ELSE Proceed(
            [w EXCEPT
                !.capsules[capsuleKey].totalStake = @ - _amount,
                !.capsules[capsuleKey].updatedAt = timestamp,
                !.stakes[capsuleKey][sender] =
                    IF capsule.totalStake = _amount THEN NoStaking ELSE @],
            _amount)

\* unstake that starts a new lock period for what is left of the stake
unstake_RestartsLock(w, sender, _capsuleId, _amount, timestamp) ==
    LET capsuleKey == keccak256(sender, _capsuleId)
        capsule == w.capsules[capsuleKey]
        userStake == w.stakes[capsuleKey][sender]
    IN  IF _amount = 0 THEN Revert("InsufficientPayment")
        ELSE IF ~capsule.exists THEN Revert("CapsuleNotFound")
        ELSE IF ~userStake.exists \/ capsule.totalStake < _amount
             THEN Revert("InsufficientStake")
        ELSE IF timestamp < userStake.lockUntil THEN Revert("StakeLocked")
        ELSE Proceed(
            [w EXCEPT
                !.capsules[capsuleKey].totalStake = @ - _amount,
                !.capsules[capsuleKey].updatedAt = timestamp,
                !.stakes[capsuleKey][sender].lockUntil =
                    timestamp + LOCK_PERIOD_SECONDS],
            _amount)

\* unstake that counts the lock period from stakedAt instead of reading
\* lockUntil
unstake_ChecksStakedAt(w, sender, _capsuleId, _amount, timestamp) ==
    LET capsuleKey == keccak256(sender, _capsuleId)
        capsule == w.capsules[capsuleKey]
        userStake == w.stakes[capsuleKey][sender]
    IN  IF _amount = 0 THEN Revert("InsufficientPayment")
        ELSE IF ~capsule.exists THEN Revert("CapsuleNotFound")
        ELSE IF ~userStake.exists \/ capsule.totalStake < _amount
             THEN Revert("InsufficientStake")
        ELSE IF timestamp < userStake.stakedAt + LOCK_PERIOD_SECONDS
             THEN Revert("StakeLocked")
        ELSE Proceed(
            [w EXCEPT
                !.capsules[capsuleKey].totalStake = @ - _amount,
                !.capsules[capsuleKey].updatedAt = timestamp],
            _amount)

\* unstake that sends the whole stake of the capsule for any amount
unstake_SendsAll(w, sender, _capsuleId, _amount, timestamp) ==
    LET capsuleKey == keccak256(sender, _capsuleId)
        capsule == w.capsules[capsuleKey]
        userStake == w.stakes[capsuleKey][sender]
    IN  IF _amount = 0 THEN Revert("InsufficientPayment")
        ELSE IF ~capsule.exists THEN Revert("CapsuleNotFound")
        ELSE IF ~userStake.exists \/ capsule.totalStake < _amount
             THEN Revert("InsufficientStake")
        ELSE IF timestamp < userStake.lockUntil THEN Revert("StakeLocked")
        ELSE Proceed(
            [w EXCEPT
                !.capsules[capsuleKey].totalStake = @ - _amount,
                !.capsules[capsuleKey].updatedAt = timestamp],
            capsule.totalStake)

\* unstake that looks at the lock before it looks at the balance
unstake_LockCheckedFirst(w, sender, _capsuleId, _amount, timestamp) ==
    LET capsuleKey == keccak256(sender, _capsuleId)
        capsule == w.capsules[capsuleKey]
        userStake == w.stakes[capsuleKey][sender]
    IN  IF _amount = 0 THEN Revert("InsufficientPayment")
        ELSE IF ~capsule.exists THEN Revert("CapsuleNotFound")
        ELSE IF userStake.exists /\ timestamp < userStake.lockUntil
             THEN Revert("StakeLocked")
        ELSE IF ~userStake.exists \/ capsule.totalStake < _amount
             THEN Revert("InsufficientStake")
        ELSE Proceed(
            [w EXCEPT
                !.capsules[capsuleKey].totalStake = @ - _amount,
                !.capsules[capsuleKey].updatedAt = timestamp],
            _amount)

\* unstake that never lets the last of the stake go
unstake_KeepsSomeStake(w, sender, _capsuleId, _amount, timestamp) ==
    LET capsuleKey == keccak256(sender, _capsuleId)
        capsule == w.capsules[capsuleKey]
        userStake == w.stakes[capsuleKey][sender]
    IN  IF _amount = 0 THEN Revert("InsufficientPayment")
        ELSE IF ~capsule.exists THEN Revert("CapsuleNotFound")
        ELSE IF ~userStake.exists \/ capsule.totalStake <= _amount
             THEN Revert("InsufficientStake")
        ELSE IF timestamp < userStake.lockUntil THEN Revert("StakeLocked")
        ELSE Proceed(
            [w EXCEPT
                !.capsules[capsuleKey].totalStake = @ - _amount,
                !.capsules[capsuleKey].updatedAt = timestamp],
            _amount)

\* unstake up to its value transfer (contract.sol 349-374)
unstake(w, sender, _capsuleId, _amount, timestamp) ==
    LET capsuleKey == keccak256(sender, _capsuleId)
        capsule == w.capsules[capsuleKey]
        userStake == w.stakes[capsuleKey][sender]
    IN  IF _amount = 0 THEN Revert("InsufficientPayment")
        ELSE IF ~capsule.exists THEN Revert("CapsuleNotFound")
        ELSE IF ~userStake.exists \/ capsule.totalStake < _amount
             THEN Revert("InsufficientStake")
        ELSE IF timestamp < userStake.lockUntil THEN Revert("StakeLocked")
        ELSE Proceed(
            [w EXCEPT
                !.capsules[capsuleKey].totalStake = @ - _amount,
                !.capsules[capsuleKey].updatedAt = timestamp],
            _amount)

\* unstake that emits its event and forgets the history entry
unstakeLogging_NoHistory(w, sender, _capsuleId, _amount, timestamp) ==
    [w EXCEPT
        !.events = Append(@, [name |-> "UnstakedFromCapsule", who |-> sender,
                              id |-> _capsuleId, amount |-> _amount])]

\* unstake after its value transfer succeeded (contract.sol 377-384)
unstakeLogging(w, sender, _capsuleId, _amount, timestamp) ==
    [w EXCEPT
        !.events = Append(@, [name |-> "UnstakedFromCapsule", who |-> sender,
                              id |-> _capsuleId, amount |-> _amount]),
        !.unstakedFromCapsuleHistory =
            Append(@, [staker |-> sender, capsuleId |-> _capsuleId,
                       amount |-> _amount, timestamp |-> timestamp])]

\* queryCapsule that keeps the excess payment instead of refunding it
queryCapsule_KeepsExcess(w, sender, _creator, _capsuleId, value, timestamp) ==
    LET capsuleKey == keccak256(_creator, _capsuleId)
        capsule == w.capsules[capsuleKey]
        cost == capsule.price
    IN  IF ~capsule.exists THEN Revert("CapsuleNotFound")
        ELSE IF value < cost THEN Revert("InsufficientPayment")
        ELSE Proceed(
            [w EXCEPT
                !.capsules[capsuleKey].earnings = @ + cost,
                !.earnings[capsuleKey] =
                    [totalEarnings |-> @.totalEarnings + cost,
                     queryCount |-> @.queryCount + 1,
                     lastUpdated |-> timestamp],
                !.credited[capsuleKey] = @ + cost,
                !.creditedSince[capsuleKey] = @ + cost],
            0)

\* queryCapsule that takes a payment below the price as a part payment
queryCapsule_AcceptsPartial(w, sender, _creator, _capsuleId, value, timestamp) ==
    LET capsuleKey == keccak256(_creator, _capsuleId)
        capsule == w.capsules[capsuleKey]
        cost == IF value < capsule.price THEN value ELSE capsule.price
    IN  IF ~capsule.exists THEN Revert("CapsuleNotFound")
        ELSE Proceed(
            [w EXCEPT
                !.capsules[capsuleKey].earnings = @ + cost,
                !.earnings[capsuleKey] =
                    [totalEarnings |-> @.totalEarnings + cost,
                     queryCount |-> @.queryCount + 1,
                     lastUpdated |-> timestamp],
                !.credited[capsuleKey] = @ + cost,
                !.creditedSince[capsuleKey] = @ + cost],
            value - cost)

\* queryCapsule that credits the payment received, not the price
queryCapsule_CreditsPayment(w, sender, _creator, _capsuleId, value, timestamp) ==
    LET capsuleKey == keccak256(_creator, _capsuleId)
        capsule == w.capsules[capsuleKey]
        cost == capsule.price
    IN  IF ~capsule.exists THEN Revert("CapsuleNotFound")
        ELSE IF value < cost THEN Revert("InsufficientPayment")
        ELSE Proceed(
            [w EXCEPT
                !.capsules[capsuleKey].earnings = @ + value,
                !.earnings[capsuleKey] =
                    [totalEarnings |-> @.totalEarnings + value,
                     queryCount |-> @.queryCount + 1,
                     lastUpdated |-> timestamp],
                !.credited[capsuleKey] = @ + cost,
                !.creditedSince[capsuleKey] = @ + cost],
            value - cost)

\* queryCapsule that credits the earnings record and forgets Capsule.earnings
queryCapsule_CreditsRecordOnly(w, sender, _creator, _capsuleId, value, timestamp) ==
    LET capsuleKey == keccak256(_creator, _capsuleId)
        capsule == w.capsules[capsuleKey]
        cost == capsule.price
    IN  IF ~capsule.exists THEN Revert("CapsuleNotFound")
        ELSE IF value < cost THEN Revert("InsufficientPayment")
        ELSE Proceed(
            [w EXCEPT
                !.earnings[capsuleKey] =
                    [totalEarnings |-> @.totalEarnings + cost,
                     queryCount |-> @.queryCount + 1,
                     lastUpdated |-> timestamp],
                !.credited[capsuleKey] = @ + cost,
                !.creditedSince[capsuleKey] = @ + cost],
            value - cost)

\* queryCapsule that sends back the whole payment, not the excess
queryCapsule_RefundsAll(w, sender, _creator, _capsuleId, value, timestamp) ==
    LET capsuleKey == keccak256(_creator, _capsuleId)
        capsule == w.capsules[capsuleKey]
        cost == capsule.price
    IN  IF ~capsule.exists THEN Revert("CapsuleNotFound")
        ELSE IF value < cost THEN Revert("InsufficientPayment")
        ELSE Proceed(
            [w EXCEPT
                !.capsules[capsuleKey].earnings = @ + cost,
                !.earnings[capsuleKey] =
                    [totalEarnings |-> @.totalEarnings + cost,
                     queryCount |-> @.queryCount + 1,
                     lastUpdated |-> timestamp],
                !.credited[capsuleKey] = @ + cost,
                !.creditedSince[capsuleKey] = @ + cost],
            value)

\* queryCapsule that does not look for the capsule
queryCapsule_AnyKey(w, sender, _creator, _capsuleId, value, timestamp) ==
    LET capsuleKey == keccak256(_creator, _capsuleId)
        capsule == w.capsules[capsuleKey]
        cost == capsule.price
    IN  IF value < cost THEN Revert("InsufficientPayment")
        ELSE Proceed(
            [w EXCEPT
                !.capsules[capsuleKey].earnings = @ + cost,
                !.earnings[capsuleKey] =
                    [totalEarnings |-> @.totalEarnings + cost,
                     queryCount |-> @.queryCount + 1,
                     lastUpdated |-> timestamp],
                !.credited[capsuleKey] = @ + cost,
                !.creditedSince[capsuleKey] = @ + cost],
            value - cost)

\* queryCapsule up to the refund of the excess payment (contract.sol 391-416);
\* value is msg.value
queryCapsule(w, sender, _creator, _capsuleId, value, timestamp) ==
    LET capsuleKey == keccak256(_creator, _capsuleId)
        capsule == w.capsules[capsuleKey]
        cost == capsule.price
    IN  IF ~capsule.exists THEN Revert("CapsuleNotFound")
        ELSE IF value < cost THEN Revert("InsufficientPayment")
        ELSE Proceed(
            [w EXCEPT
                !.capsules[capsuleKey].earnings = @ + cost,
                !.earnings[capsuleKey] =
                    [totalEarnings |-> @.totalEarnings + cost,
                     queryCount |-> @.queryCount + 1,
                     lastUpdated |-> timestamp],
                !.credited[capsuleKey] = @ + cost,
                !.creditedSince[capsuleKey] = @ + cost],
            value - cost)

\* queryCapsule after the refund (contract.sol 419-427); cost is the local
\* variable of line 402, read before the refund
queryCapsuleLogging(w, sender, _capsuleId, cost, timestamp) ==
    [w EXCEPT
        !.events = Append(@, [name |-> "CapsuleQueried", who |-> sender,
                              id |-> _capsuleId, amount |-> cost]),
        !.capsuleQueriedHistory =
            Append(@, [user |-> sender, capsuleId |-> _capsuleId,
                       amountPaid |-> cost, timestamp |-> timestamp])]

\* withdrawEarnings that sends the earnings with the balance not yet reset
withdrawEarnings_NoReset(w, sender, _capsuleId, timestamp) ==
    LET capsuleKey == keccak256(sender, _capsuleId)
        amount == w.earnings[capsuleKey].totalEarnings
    IN  IF amount = 0 THEN Revert("InsufficientPayment")
        ELSE IF w.balance < amount THEN Revert("TransferFailed")
        ELSE Proceed(
            [w EXCEPT
                !.paidOut[capsuleKey] = @ + amount,
                !.creditedSince[capsuleKey] = 0],
            amount)

\* withdrawEarnings that resets the earnings record and not Capsule.earnings
withdrawEarnings_KeepsCapsuleEarnings(w, sender, _capsuleId, timestamp) ==
    LET capsuleKey == keccak256(sender, _capsuleId)
        amount == w.earnings[capsuleKey].totalEarnings
    IN  IF amount = 0 THEN Revert("InsufficientPayment")
        ELSE IF w.balance < amount THEN Revert("TransferFailed")
        ELSE Proceed(
            [w EXCEPT
                !.earnings[capsuleKey].totalEarnings = 0,
                !.paidOut[capsuleKey] = @ + amount,
                !.creditedSince[capsuleKey] = 0],
            amount)

\* withdrawEarnings that, when the caller has nothing to withdraw, pays out
\* the earnings of another creator's capsule of the same id
withdrawEarnings_FromAnyCreator(w, sender, _capsuleId, timestamp) ==
    LET own == keccak256(sender, _capsuleId)
        others == {k \in Keys : k[2] = _capsuleId /\ w.earnings[k].totalEarnings > 0}
        capsuleKey == IF w.earnings[own].totalEarnings = 0 /\ others # {}
                      THEN CHOOSE k \in others : TRUE
                      ELSE own
        amount == w.earnings[capsuleKey].totalEarnings
    IN  IF amount = 0 THEN Revert("InsufficientPayment")
        ELSE IF w.balance < amount THEN Revert("TransferFailed")
        ELSE Proceed(
            [w EXCEPT
                !.earnings[capsuleKey].totalEarnings = 0,
                !.capsules[capsuleKey].earnings = 0,
                !.paidOut[capsuleKey] = @ + amount,
                !.creditedSince[capsuleKey] = 0],
            amount)

\* withdrawEarnings that stamps the capsule as updated
withdrawEarnings_StampsUpdatedAt(w, sender, _capsuleId, timestamp) ==
    LET capsuleKey == keccak256(sender, _capsuleId)
        amount == w.earnings[capsuleKey].totalEarnings
    IN  IF amount = 0 THEN Revert("InsufficientPayment")
        ELSE IF w.balance < amount THEN Revert("TransferFailed")
        ELSE Proceed(
            [w EXCEPT
                !.earnings[capsuleKey].totalEarnings = 0,
                !.capsules[capsuleKey].earnings = 0,
                !.capsules[capsuleKey].updatedAt = timestamp,
                !.paidOut[capsuleKey] = @ + amount,
                !.creditedSince[capsuleKey] = 0],
            amount)

\* withdrawEarnings that clears the whole earnings record
withdrawEarnings_ResetsCount(w, sender, _capsuleId, timestamp) ==
    LET capsuleKey == keccak256(sender, _capsuleId)
        amount == w.earnings[capsuleKey].totalEarnings
    IN  IF amount = 0 THEN Revert("InsufficientPayment")
        ELSE IF w.balance < amount THEN Revert("TransferFailed")
        ELSE Proceed(
            [w EXCEPT
                !.earnings[capsuleKey] = NoEarnings,
                !.capsules[capsuleKey].earnings = 0,
                !.paidOut[capsuleKey] = @ + amount,
                !.creditedSince[capsuleKey] = 0],
            amount)

\* withdrawEarnings up to its value transfer (contract.sol 433-449)
withdrawEarnings(w, sender, _capsuleId, timestamp) ==
    LET capsuleKey == keccak256(sender, _capsuleId)
        amount == w.earnings[capsuleKey].totalEarnings
    IN  IF amount = 0 THEN Revert("InsufficientPayment")
        ELSE IF w.balance < amount THEN Revert("TransferFailed")
        ELSE Proceed(
            [w EXCEPT
                !.earnings[capsuleKey].totalEarnings = 0,
                !.capsules[capsuleKey].earnings = 0,
                !.paidOut[capsuleKey] = @ + amount,
                !.creditedSince[capsuleKey] = 0],
            amount)

\* withdrawEarnings that emits its event and forgets the history entry
withdrawEarningsLogging_NoHistory(w, sender, amount, timestamp) ==
    [w EXCEPT
        !.events = Append(@, [name |-> "EarningsWithdrawn", who |-> sender,
                              id |-> "", amount |-> amount])]

\* withdrawEarnings after its value transfer succeeded (contract.sol 452-458)
withdrawEarningsLogging(w, sender, amount, timestamp) ==
    [w EXCEPT
        !.events = Append(@, [name |-> "EarningsWithdrawn", who |-> sender,
                              id |-> "", amount |-> amount]),
        !.earningsWithdrawnHistory =
            Append(@, [creator |-> sender, amount |-> amount,
                       timestamp |-> timestamp])]

\* updateCapsulePrice without the check of the minimum price
updateCapsulePrice_NoMinimum(w, sender, _capsuleId, _newPrice, timestamp) ==
    LET capsuleKey == keccak256(sender, _capsuleId)
        capsule == w.capsules[capsuleKey]
    IN  IF _newPrice > MAX_PRICE_PER_QUERY THEN Revert("PriceTooHigh")
        ELSE IF ~capsule.exists THEN Revert("CapsuleNotFound")
        ELSE IF sender # capsule.creator THEN Revert("Unauthorized")
        ELSE Proceed(
            [w EXCEPT
                !.capsules[capsuleKey].price = _newPrice,
                !.capsules[capsuleKey].updatedAt = timestamp,
                !.events = Append(@, [name |-> "PriceUpdated", who |-> sender,
                                      id |-> _capsuleId, amount |-> _newPrice]),
                !.priceUpdatedHistory =
                    Append(@, [capsuleId |-> _capsuleId, newPrice |-> _newPrice,
                               timestamp |-> timestamp])],
            0)

\* updateCapsulePrice that looks the capsule up by its id alone, under
\* whichever creator has it, and does not check the caller
updateCapsulePrice_AnyCaller(w, sender, _capsuleId, _newPrice, timestamp) ==
    LET holders == {a \in Addresses : w.capsules[keccak256(a, _capsuleId)].exists}
        capsuleKey == IF holders = {} THEN keccak256(sender, _capsuleId)
                      ELSE keccak256(CHOOSE a \in holders : TRUE, _capsuleId)
        capsule == w.capsules[capsuleKey]
    IN  IF _newPrice < MIN_PRICE_PER_QUERY THEN Revert("InvalidPrice")
        ELSE IF _newPrice > MAX_PRICE_PER_QUERY THEN Revert("PriceTooHigh")
        ELSE IF ~capsule.exists THEN Revert("CapsuleNotFound")
        ELSE Proceed(
            [w EXCEPT
                !.capsules[capsuleKey].price = _newPrice,
                !.capsules[capsuleKey].updatedAt = timestamp,
                !.events = Append(@, [name |-> "PriceUpdated", who |-> sender,
                                      id |-> _capsuleId, amount |-> _newPrice]),
                !.priceUpdatedHistory =
                    Append(@, [capsuleId |-> _capsuleId, newPrice |-> _newPrice,
                               timestamp |-> timestamp])],
            0)

\* updateCapsulePrice that starts the earnings afresh at the new price
updateCapsulePrice_ResetsEarnings(w, sender, _capsuleId, _newPrice, timestamp) ==
    LET capsuleKey == keccak256(sender, _capsuleId)
        capsule == w.capsules[capsuleKey]
    IN  IF _newPrice < MIN_PRICE_PER_QUERY THEN Revert("InvalidPrice")
        ELSE IF _newPrice > MAX_PRICE_PER_QUERY THEN Revert("PriceTooHigh")
        ELSE IF ~capsule.exists THEN Revert("CapsuleNotFound")
        ELSE IF sender # capsule.creator THEN Revert("Unauthorized")
        ELSE Proceed(
            [w EXCEPT
                !.capsules[capsuleKey].price = _newPrice,
                !.capsules[capsuleKey].updatedAt = timestamp,
                !.capsules[capsuleKey].earnings = 0,
                !.earnings[capsuleKey].totalEarnings = 0,
                !.events = Append(@, [name |-> "PriceUpdated", who |-> sender,
                                      id |-> _capsuleId, amount |-> _newPrice]),
                !.priceUpdatedHistory =
                    Append(@, [capsuleId |-> _capsuleId, newPrice |-> _newPrice,
                               timestamp |-> timestamp])],
            0)

\* updateCapsulePrice (contract.sol 464-483)
updateCapsulePrice(w, sender, _capsuleId, _newPrice, timestamp) ==
    LET capsuleKey == keccak256(sender, _capsuleId)
        capsule == w.capsules[capsuleKey]
    IN  IF _newPrice < MIN_PRICE_PER_QUERY THEN Revert("InvalidPrice")
        ELSE IF _newPrice > MAX_PRICE_PER_QUERY THEN Revert("PriceTooHigh")
        ELSE IF ~capsule.exists THEN Revert("CapsuleNotFound")
        ELSE IF sender # capsule.creator THEN Revert("Unauthorized")
        ELSE Proceed(
            [w EXCEPT
                !.capsules[capsuleKey].price = _newPrice,
                !.capsules[capsuleKey].updatedAt = timestamp,
                !.events = Append(@, [name |-> "PriceUpdated", who |-> sender,
                                      id |-> _capsuleId, amount |-> _newPrice]),
                !.priceUpdatedHistory =
                    Append(@, [capsuleId |-> _capsuleId, newPrice |-> _newPrice,
                               timestamp |-> timestamp])],
            0)

-----------------------------------------------------------------------------
(* The executor: calls, value transfers and reverts *)

\* A call: the function, msg.sender, the arguments and msg.value
Call(op, sender, creator, id, name, amount, value) ==
    [op |-> op, sender |-> sender, creator |-> creator, id |-> id, name |-> name,
     amount |-> amount, value |-> value]

NoCall == Call("none", ZeroAddress, ZeroAddress, "", "", 0, 0)

\* msg.value passes from the caller to the ledger when the call starts
Receive(w, from, value) ==
    [w EXCEPT !.wallet[from] = @ - value, !.balance = @ + value]

\* payable(to).call{value: value}(""): the value passes to the recipient,
\* whose code then runs
Send(w, to, value) ==
    [w EXCEPT !.balance = @ - value, !.wallet[to] = @ + value]

\* The statements of a function that follow its value transfer
Logging(w, c, cost, pay, timestamp) ==
    CASE c.op = "unstake" ->
            unstakeLogging(w, c.sender, c.id, c.amount, timestamp)
      [] c.op = "queryCapsule" ->
            queryCapsuleLogging(w, c.sender, c.id, cost, timestamp)
      [] c.op = "withdrawEarnings" ->
            withdrawEarningsLogging(w, c.sender, pay, timestamp)
      [] OTHER -> w

\* A behaviour is followed up to its first failing call.  A failing call
\* changes nothing but ret, so whatever can follow it can also be done in
\* its place, from the same storage, stack and time: no state of the ledger
\* is lost, and the states that differ in ret alone are not explored twice.
Failed == ret.err \notin {"none", "ok", "pending"}

\* A call c whose part before the value transfer has the outcome r.
\* While a value transfer waits, the code that runs is the recipient's, and
\* the calls made are its calls.
\*  - r reverts: nothing changes (msg.value goes back with the revert);
\*  - no value to send: the function runs to its end;
\*  - the ledger cannot pay: call{value} returns false, TransferFailed;
\*  - otherwise the value is sent and the call waits for the recipient.
Execute(c, r, cost) ==
    /\ ~Failed
    /\ Len(stack) < MaxDepth
    /\ stack # <<>> => c.sender = stack[Len(stack)].call.sender
    /\ Len(events) + Len(stack) < MaxOps
    /\ wallet[c.sender] >= c.value
    /\ UNCHANGED now
    /\ IF r.err # "ok"
       THEN /\ UNCHANGED storage
            /\ stack' = stack
            /\ ret' = [call |-> c, err |-> r.err]
       ELSE IF r.pay = 0
       THEN /\ Commit(Logging(r.w, c, cost, 0, now))
            /\ stack' = stack
            /\ ret' = [call |-> c, err |-> "ok"]
       ELSE IF r.w.balance < r.pay
       THEN /\ UNCHANGED storage
            /\ stack' = stack
            /\ ret' = [call |-> c, err |-> "TransferFailed"]
       ELSE /\ Commit(Send(r.w, c.sender, r.pay))
            /\ stack' = Append(stack, [call |-> c, cost |-> cost, pay |-> r.pay,
                                       snap |-> World])
            /\ ret' = [call |-> c, err |-> "pending"]

RegisterAgent(sender, _agentId, _name, _displayName, _platform) ==
    Execute(Call("registerAgent", sender, sender, _agentId, _name, 0, 0),
            registerAgent(World, sender, _agentId, _name, _displayName, _platform, now),
            0)

CreateCapsule(sender, _capsuleId, _name, _description, _category, _price) ==
    Execute(Call("createCapsule", sender, sender, _capsuleId, _name, _price, 0),
            createCapsule(World, sender, _capsuleId, _name, _description, _category,
                          _price, now),
            0)

Stake(sender, _capsuleId, value) ==
    Execute(Call("stake", sender, sender, _capsuleId, "", value, value),
            stake(Receive(World, sender, value), sender, _capsuleId, value, now),
            0)

Unstake(sender, _capsuleId, _amount) ==
    Execute(Call("unstake", sender, sender, _capsuleId, "", _amount, 0),
            unstake(World, sender, _capsuleId, _amount, now),
            0)

QueryCapsule(sender, _creator, _capsuleId, value) ==
    Execute(Call("queryCapsule", sender, _creator, _capsuleId, "", 0, value),
            queryCapsule(Receive(World, sender, value), sender, _creator, _capsuleId,
                         value, now),
            capsules[keccak256(_creator, _capsuleId)].price)

WithdrawEarnings(sender, _capsuleId) ==
    Execute(Call("withdrawEarnings", sender, sender, _capsuleId, "", 0, 0),
            withdrawEarnings(World, sender, _capsuleId, now),
            0)

UpdateCapsulePrice(sender, _capsuleId, _newPrice) ==
    Execute(Call("updateCapsulePrice", sender, sender, _capsuleId, "", _newPrice, 0),
            updateCapsulePrice(World, sender, _capsuleId, _newPrice, now),
            0)

\* The recipient of the innermost value transfer returns normally: the
\* waiting function sees success and runs its remaining statements.
TransferAccepted ==
    /\ ~Failed
    /\ stack # <<>>
    /\ LET f == stack[Len(stack)]
       IN  /\ Commit(Logging(World, f.call, f.cost, f.pay, now))
           /\ ret' = [call |-> f.call, err |-> "ok"]
    /\ stack' = SubSeq(stack, 1, Len(stack) - 1)
    /\ UNCHANGED now

\* A refused transfer after which the waiting function returns instead of
\* reverting: what it did before the transfer stays
TransferRefused_NoRevert ==
    /\ ~Failed
    /\ stack # <<>>
    /\ ret' = [call |-> stack[Len(stack)].call, err |-> "TransferFailed"]
    /\ stack' = SubSeq(stack, 1, Len(stack) - 1)
    /\ UNCHANGED <<storage, now>>

\* A refused transfer after which the value is back with the ledger and the
\* waiting function ends with the bookkeeping it did before the transfer
TransferRefused_KeepsBookkeeping ==
    /\ ~Failed
    /\ stack # <<>>
    /\ LET f == stack[Len(stack)]
       IN  /\ Commit(Receive(World, f.call.sender, f.pay))
           /\ ret' = [call |-> f.call, err |-> "TransferFailed"]
    /\ stack' = SubSeq(stack, 1, Len(stack) - 1)
    /\ UNCHANGED now

\* The recipient refuses the value (its code reverts): call{value} returns
\* false, the waiting function reverts with TransferFailed, and the revert
\* restores the state the function was called in.
TransferRefused ==
    /\ ~Failed
    /\ stack # <<>>
    /\ LET f == stack[Len(stack)]
       IN  /\ Commit(f.snap)
           /\ ret' = [call |-> f.call, err |-> "TransferFailed"]
    /\ stack' = SubSeq(stack, 1, Len(stack) - 1)
    /\ UNCHANGED now

\* Between transactions the block timestamp advances
AdvanceTime ==
    /\ ~Failed
    /\ stack = <<>>
    /\ now + TimeStep <= StartTime + MaxPeriods * TimeStep
    /\ now' = now + TimeStep
    /\ UNCHANGED <<storage, stack, ret>>

Init ==
    /\ agents = [k \in Keys |-> NoAgent]
    /\ capsules = [k \in Keys |-> NoCapsule]
    /\ earnings = [k \in Keys |-> NoEarnings]
    /\ stakes = [k \in Keys |-> [a \in Addresses |-> NoStaking]]
    /\ ownerAgents = [a \in Addresses |-> <<>>]
    /\ ownerCapsules = [a \in Addresses |-> <<>>]
    /\ agentRegisteredHistory = <<>>
    /\ capsuleCreatedHistory = <<>>
    /\ stakedOnCapsuleHistory = <<>>
    /\ unstakedFromCapsuleHistory = <<>>
    /\ priceUpdatedHistory = <<>>
    /\ earningsWithdrawnHistory = <<>>
    /\ capsuleQueriedHistory = <<>>
    /\ events = <<>>
    /\ balance = 0
    /\ wallet = [a \in Addresses |-> InitialWallet]
    /\ credited = [k \in Keys |-> 0]
    /\ paidOut = [k \in Keys |-> 0]
    /\ creditedSince = [k \in Keys |-> 0]
    /\ now = StartTime
    /\ stack = <<>>
    /\ ret = [call |-> NoCall, err |-> "none"]

Next ==
    \/ \E sender \in Registrants, id \in AgentIds, name \in Names,
          displayName \in Texts, platform \in Texts :
            RegisterAgent(sender, id, name, displayName, platform)
    \/ \E sender \in Creators, id \in CapsuleIds, name \in Names,
          description \in Texts, category \in Texts, price \in Prices :
            CreateCapsule(sender, id, name, description, category, price)
    \/ \E sender \in Addresses, id \in CapsuleIds, value \in StakeAmounts :
            Stake(sender, id, value)
    \/ \E sender \in Addresses, id \in CapsuleIds, amount \in UnstakeAmounts :
            Unstake(sender, id, amount)
    \/ \E sender \in Addresses, creator \in Addresses, id \in CapsuleIds,
          value \in Payments :
            QueryCapsule(sender, creator, id, value)
    \/ \E sender \in Addresses, id \in CapsuleIds :
            WithdrawEarnings(sender, id)
    \/ \E sender \in Addresses, id \in CapsuleIds, price \in Prices :
            UpdateCapsulePrice(sender, id, price)
    \/ TransferAccepted
    \/ TransferRefused
    \/ AdvanceTime

Spec == Init /\ [][Next]_vars

-----------------------------------------------------------------------------
(* The capsule market of several creators: every account creates capsules  *)
(* (the same id under different creators is a different capsule), stakes,  *)
(* queries, withdraws and prices; the inputs are the accepted ones and the *)
(* agent registry, which no capsule operation reads, is left out.          *)

MarketPrices == {MIN_PRICE_PER_QUERY, MIN_PRICE_PER_QUERY + 1}
MarketStakes == {MIN_STAKE_AMOUNT}
MarketUnstakes == {MIN_STAKE_AMOUNT}
MarketPayments == {MIN_PRICE_PER_QUERY, MIN_PRICE_PER_QUERY + 1}

NextMarket ==
    \/ \E sender \in Addresses, id \in CapsuleIds, name \in Names,
          description \in Texts, category \in Texts, price \in MarketPrices :
            CreateCapsule(sender, id, name, description, category, price)
    \/ \E sender \in Addresses, id \in CapsuleIds, value \in MarketStakes :
            Stake(sender, id, value)
    \/ \E sender \in Addresses, id \in CapsuleIds, amount \in MarketUnstakes :
            Unstake(sender, id, amount)
    \/ \E sender \in Addresses, creator \in Addresses, id \in CapsuleIds,
          value \in MarketPayments :
            QueryCapsule(sender, creator, id, value)
    \/ \E sender \in Addresses, id \in CapsuleIds :
            WithdrawEarnings(sender, id)
    \/ \E sender \in Addresses, id \in CapsuleIds, price \in MarketPrices :
            UpdateCapsulePrice(sender, id, price)
    \/ TransferAccepted
    \/ TransferRefused
    \/ AdvanceTime

Market == Init /\ [][NextMarket]_vars

-----------------------------------------------------------------------------
(* Staking on its own: a creator's capsule, deposits around both limits of *)
(* stake, withdrawals of a part, of the whole and of more than the stake,  *)
(* by the creator and by another account.                                  *)

StakingDeposits == {MIN_STAKE_AMOUNT - 1, MIN_STAKE_AMOUNT, MIN_STAKE_AMOUNT + 1,
                    MAX_STAKE_AMOUNT, MAX_STAKE_AMOUNT + 1}
StakingWithdrawals == {0, MIN_STAKE_AMOUNT, MIN_STAKE_AMOUNT + 1, MAX_STAKE_AMOUNT}

NextStaking ==
    \/ \E sender \in Creators, id \in CapsuleIds, name \in Names,
          description \in Texts, category \in Texts :
            CreateCapsule(sender, id, name, description, category, MIN_PRICE_PER_QUERY)
    \/ \E sender \in Addresses, id \in CapsuleIds, value \in StakingDeposits :
            Stake(sender, id, value)
    \/ \E sender \in Addresses, id \in CapsuleIds, amount \in StakingWithdrawals :
            Unstake(sender, id, amount)
    \/ TransferAccepted
    \/ TransferRefused
    \/ AdvanceTime

Staking == Init /\ [][NextStaking]_vars

-----------------------------------------------------------------------------
(* The registry on its own: every account registers agents and creates     *)
(* capsules under both ids, with well-formed and ill-formed arguments: the  *)
(* empty string, an id of 33 bytes, a name of 129 bytes, prices on both    *)
(* sides of the range.  No check of the registry reads the timestamp, so   *)
(* all calls are made at one time.                                          *)

\* bytes(_id).length = 33
LongId == "ccccccccccccccccccccccccccccccccc"
\* bytes(_name).length = 129
LongName ==
    "nnnnnnnnnnnnnnnnnnnnnnnnnnnnnnnnnnnnnnnnnnnnnnnnnnnnnnnnnnnnnnnnnnnnnnnnnnnnnnnnnnnnnnnnnnnnnnnnnnnnnnnnnnnnnnnnnnnnnnnnnnnnnnnnn"

RegistryIds == Ids \cup {"", LongId}
RegistryNames == Names \cup {"", LongName}
RegistryPrices == {MIN_PRICE_PER_QUERY - 1, MIN_PRICE_PER_QUERY, MAX_PRICE_PER_QUERY + 1}

NextRegistry ==
    \/ \E sender \in Addresses, id \in RegistryIds, name \in RegistryNames,
          displayName \in Texts, platform \in Texts :
            RegisterAgent(sender, id, name, displayName, platform)
    \/ \E sender \in Addresses, id \in RegistryIds, name \in Names,
          description \in Texts, category \in Texts, price \in RegistryPrices :
            CreateCapsule(sender, id, name, description, category, price)

Registry == Init /\ [][NextRegistry]_vars

-----------------------------------------------------------------------------
(* Recovery of the stake.  Calls that fail change nothing and are left out, *)
(* those that revert because their transfer is refused included; a deposit *)
(* is made while the clock of the model can still advance by a lock        *)
(* period.  Fairness: a value transfer ends (the recipient's code returns  *)
(* within the gas of the transaction), and the block timestamp keeps       *)
(* advancing between transactions.                                         *)

RecoveryDeposits == {MIN_STAKE_AMOUNT, MIN_STAKE_AMOUNT + 1}
RecoveryWithdrawals == {MIN_STAKE_AMOUNT, MIN_STAKE_AMOUNT + 1}

NextRecovery ==
    \/ \E sender \in Addresses, id \in CapsuleIds, name \in Names,
          description \in Texts, category \in Texts :
            /\ CreateCapsule(sender, id, name, description, category, MIN_PRICE_PER_QUERY)
            /\ ~Failed'
    \/ \E sender \in Addresses, id \in CapsuleIds, value \in RecoveryDeposits :
            /\ now < StartTime + MaxPeriods * TimeStep
            /\ Stake(sender, id, value)
            /\ ~Failed'
    \/ \E sender \in Addresses, id \in CapsuleIds, amount \in RecoveryWithdrawals :
            /\ Unstake(sender, id, amount)
            /\ ~Failed'
    \/ TransferAccepted
    \/ AdvanceTime

Recovery ==
    /\ Init
    /\ [][NextRecovery]_vars
    /\ WF_vars(TransferAccepted)
    /\ SF_vars(AdvanceTime)

-----------------------------------------------------------------------------
(* Reading a step.  The stuttering steps aside, a step in which the clock  *)
(* stands still and the stack does not shrink is a call, and ret' is that  *)
(* call: it failed at once, ran to its end, or waits in its value          *)
(* transfer ("pending").  A step in which the stack shrinks is the return  *)
(* of the innermost waiting call.                                          *)

Top == stack[Len(stack)]
CallStep == now' = now /\ Len(stack') >= Len(stack)
ReturnStep == Len(stack') < Len(stack)
CallOf(op) == CallStep /\ ret'.call.op = op
ReturnOf(op) == ReturnStep /\ Top.call.op = op
Errors == {"EmptyString", "InvalidMetadataLength", "CapsuleNotFound", "InvalidPrice",
           "PriceTooHigh", "InsufficientPayment", "TransferFailed", "StakeTooHigh",
           "InsufficientStake", "StakeLocked", "Unauthorized",
           "Agent already exists", "Capsule already exists"}

\* The capsule key of the only capsule of this specification
CapA == keccak256("A", "cap1")

-----------------------------------------------------------------------------
\* C1 -- Atomicity: when a call of any of the seven functions fails, with
\* whatever error, the records, owner lists, balances, history logs and
\* emitted events are what they were when the call was made.  A call that
\* fails before its value transfer changes nothing; a call that fails in
\* its value transfer leaves the state it was called in.
C1_Atomicity ==
    [][ /\ (CallStep /\ ret'.err \in Errors) => World' = World
        /\ (ReturnStep /\ ret'.err # "ok") =>
              /\ ret'.err = "TransferFailed"
              /\ World' = Top.snap ]_vars

\* a withdrawal refused by its recipient, its earnings still in place
C1_Witness ==
    /\ ret.call.op = "withdrawEarnings"
    /\ ret.err = "TransferFailed"
    /\ earnings[CapA].totalEarnings > 0
    /\ capsules[CapA].earnings > 0
    /\ paidOut[CapA] = 0
    /\ earningsWithdrawnHistory = <<>>

-----------------------------------------------------------------------------
\* The reentrant withdrawEarnings of every waiting withdrawEarnings, had it
\* been made now
ReentrantWithdrawal(i) ==
    withdrawEarnings(World, stack[i].call.sender, stack[i].call.id, now)
WaitingWithdrawal(i) == stack[i].call.op = "withdrawEarnings"
KeyOf(c) == keccak256(c.creator, c.id)

\* C2 as stated -- while the value transfer of a withdrawEarnings waits, a
\* reentrant withdrawEarnings for the same capsule fails with
\* InsufficientPayment, and the value withdrawEarnings has paid out for a
\* capsule never exceeds the prices credited to it.
C2_Original ==
    /\ \A i \in DOMAIN stack :
          WaitingWithdrawal(i) => ReentrantWithdrawal(i).err = "InsufficientPayment"
    /\ \A k \in Keys : paidOut[k] <= credited[k]

\* C2 amended -- while the value transfer of a withdrawEarnings waits, a
\* reentrant withdrawEarnings for the same capsule fails with
\* InsufficientPayment unless a queryCapsule has credited the capsule since
\* the waiting call zeroed it; over any nesting of calls the value paid out
\* by withdrawEarnings for a capsule never exceeds the prices credited to it.
C2_NoDoubleWithdrawal ==
    /\ \A i \in DOMAIN stack :
          (/\ WaitingWithdrawal(i)
           /\ credited[KeyOf(stack[i].call)] = stack[i].snap.credited[KeyOf(stack[i].call)])
          => /\ earnings[KeyOf(stack[i].call)].totalEarnings = 0
             /\ ReentrantWithdrawal(i).err = "InsufficientPayment"
    /\ \A k \in Keys : paidOut[k] <= credited[k]

\* a withdrawal waits in its transfer and its recipient has called
\* withdrawEarnings again, in vain
C2_Witness ==
    /\ stack # <<>>
    /\ Top.call.op = "withdrawEarnings"
    /\ ret.call = Top.call
    /\ ret.err = "InsufficientPayment"
    /\ paidOut[KeyOf(Top.call)] = credited[KeyOf(Top.call)]
    /\ paidOut[KeyOf(Top.call)] > 0

-----------------------------------------------------------------------------
\* C3 -- Settlement conservation: a queryCapsule call on an existing capsule
\* of price P with payment V >= P credits exactly P to Capsule.earnings and
\* to EarningsRecord.totalEarnings, counts exactly one query, sends exactly
\* V - P back to the caller (no transfer when V = P) and leaves exactly P of
\* the payment with the ledger; when the refund is accepted the call ends
\* without touching the accounts again.
C3_SettlementConservation ==
    [][ /\ (/\ CallOf("queryCapsule")
            /\ capsules[KeyOf(ret'.call)].exists
            /\ ret'.call.value >= capsules[KeyOf(ret'.call)].price)
           => LET k == KeyOf(ret'.call)
                  P == capsules[k].price
                  V == ret'.call.value
                  caller == ret'.call.sender
              IN  /\ capsules'[k].earnings = capsules[k].earnings + P
                  /\ earnings'[k].totalEarnings = earnings[k].totalEarnings + P
                  /\ earnings'[k].queryCount = earnings[k].queryCount + 1
                  /\ wallet'[caller] = (wallet[caller] - V) + (V - P)
                  /\ balance' = balance + P
                  /\ V = P => (ret'.err = "ok" /\ stack' = stack)
                  /\ V > P => /\ ret'.err = "pending"
                              /\ stack' = Append(stack, [call |-> ret'.call, cost |-> P,
                                                         pay |-> V - P, snap |-> World])
        /\ (ReturnOf("queryCapsule") /\ ret'.err = "ok")
           => /\ capsules' = capsules
              /\ earnings' = earnings
              /\ wallet' = wallet
              /\ balance' = balance ]_vars

\* an overpaid query has ended: one price credited, the excess back
C3_Witness ==
    /\ ret.call.op = "queryCapsule"
    /\ ret.err = "ok"
    /\ ret.call.value > capsules[CapA].price
    /\ stack = <<>>
    /\ earnings[CapA].totalEarnings = capsules[CapA].price
    /\ earnings[CapA].queryCount = 1
    /\ balance = capsules[CapA].price
    /\ Len(capsuleQueriedHistory) = 1

-----------------------------------------------------------------------------
\* C4 -- queryCapsule with a payment below the capsule's price fails with
\* InsufficientPayment and changes nothing (no credit, no count, no event,
\* no history entry); queryCapsule on a (creator, capsuleId) that names no
\* capsule fails with CapsuleNotFound.
C4_QueryRejected ==
    [][ CallOf("queryCapsule") =>
          LET k == KeyOf(ret'.call)
          IN  /\ (capsules[k].exists /\ ret'.call.value < capsules[k].price)
                 => /\ ret'.err = "InsufficientPayment"
                    /\ World' = World
              /\ ~capsules[k].exists => ret'.err = "CapsuleNotFound" ]_vars

\* an underpaid query on an existing capsule was rejected
C4_Witness ==
    /\ ret.call.op = "queryCapsule"
    /\ ret.err = "InsufficientPayment"
    /\ capsules[KeyOf(ret.call)].exists
    /\ ret.call.value < capsules[KeyOf(ret.call)].price
    /\ ret.call.value > 0

-----------------------------------------------------------------------------
\* C5 as stated -- after a successful withdrawEarnings the capsule's
\* earnings (Capsule.earnings and EarningsRecord.totalEarnings) are 0, the
\* caller has received exactly the totalEarnings of before the call, and a
\* second withdrawEarnings made right then fails with InsufficientPayment.
C5_Original ==
    [][ (ReturnOf("withdrawEarnings") /\ ret'.err = "ok")
        => LET k == KeyOf(Top.call)
           IN  /\ earnings'[k].totalEarnings = 0
               /\ capsules'[k].earnings = 0
               /\ Top.pay = Top.snap.earnings[k].totalEarnings
               /\ withdrawEarnings(World', Top.call.sender, Top.call.id,
                                   now').err = "InsufficientPayment" ]_vars

\* C5 amended -- withdrawEarnings makes its transfer with Capsule.earnings
\* and EarningsRecord.totalEarnings already 0 and sends the caller exactly
\* the totalEarnings of before the call; when it has succeeded and no
\* queryCapsule credited the capsule during its transfer, both are still 0
\* and a second withdrawEarnings made right then fails with
\* InsufficientPayment and pays nothing.
C5_WithdrawalResets ==
    [][ /\ (CallOf("withdrawEarnings") /\ ret'.err = "pending")
           => LET k == KeyOf(ret'.call)
                  caller == ret'.call.sender
                  total == earnings[k].totalEarnings
              IN  /\ total > 0
                  /\ earnings'[k].totalEarnings = 0
                  /\ capsules'[k].earnings = 0
                  /\ wallet'[caller] = wallet[caller] + total
                  /\ balance' = balance - total
                  /\ stack'[Len(stack')].pay = total
        /\ (ReturnOf("withdrawEarnings") /\ ret'.err = "ok")
           => LET k == KeyOf(Top.call)
              IN  /\ wallet' = wallet
                  /\ balance' = balance
                  /\ earnings' = earnings
                  /\ capsules' = capsules
                  /\ earningsWithdrawnHistory' =
                        Append(earningsWithdrawnHistory,
                               [creator |-> Top.call.sender,
                                amount |-> Top.snap.earnings[k].totalEarnings,
                                timestamp |-> now])
                  /\ credited[k] = Top.snap.credited[k]
                     => /\ earnings'[k].totalEarnings = 0
                        /\ capsules'[k].earnings = 0
                        /\ withdrawEarnings(World', Top.call.sender, Top.call.id,
                                            now').err = "InsufficientPayment"
        /\ (CallOf("withdrawEarnings") /\ ret'.err = "InsufficientPayment")
           => World' = World ]_vars

\* a withdrawal has succeeded and the second one, made right after it,
\* has failed
C5_Witness ==
    /\ stack = <<>>
    /\ ret.call.op = "withdrawEarnings"
    /\ ret.err = "InsufficientPayment"
    /\ Len(earningsWithdrawnHistory) = 1
    /\ events[Len(events)].name = "EarningsWithdrawn"
    /\ earnings[KeyOf(ret.call)].totalEarnings = 0
    /\ capsules[KeyOf(ret.call)].earnings = 0
    /\ paidOut[KeyOf(ret.call)] = earningsWithdrawnHistory[1].amount

-----------------------------------------------------------------------------
\* C6 -- in every reachable state and for every capsule,
\* EarningsRecord.totalEarnings is the sum of the prices queryCapsule has
\* credited to the capsule since its last withdrawEarnings (since its
\* creation if there was none); it is also all that was ever credited less
\* all that was ever withdrawn.
C6_EarningsAreCreditsSinceWithdrawal ==
    \A k \in Keys :
        /\ earnings[k].totalEarnings = creditedSince[k]
        /\ earnings[k].totalEarnings = credited[k] - paidOut[k]

\* a capsule queried again after a withdrawal
C6_Witness ==
    /\ Len(earningsWithdrawnHistory) >= 1
    /\ paidOut[CapA] > 0
    /\ creditedSince[CapA] > 0
    /\ credited[CapA] > creditedSince[CapA]
    /\ earnings[CapA].totalEarnings = creditedSince[CapA]

-----------------------------------------------------------------------------
\* C7 -- Earnings lockstep: in every reachable state, those in which a
\* value transfer waits and a reentrant call can look at the storage
\* included, Capsule.earnings equals EarningsRecord.totalEarnings at the
\* same key.
C7_EarningsLockstep ==
    \A k \in Keys : capsules[k].earnings = earnings[k].totalEarnings

\* a refund waits while the capsule holds earnings
C7_Witness ==
    /\ stack # <<>>
    /\ Top.call.op = "queryCapsule"
    /\ capsules[KeyOf(Top.call)].earnings > 0
    /\ capsules[KeyOf(Top.call)].earnings = earnings[KeyOf(Top.call)].totalEarnings

-----------------------------------------------------------------------------
\* The stake the caller of an unstake call holds on its own capsule
CallerKey(c) == keccak256(c.sender, c.id)
CallerStake(c) == stakes[CallerKey(c)][c.sender]

\* C8 as stated -- every unstake call made strictly before the stake's
\* lockUntil fails with StakeLocked.
C8_Original ==
    [][ (/\ CallOf("unstake")
         /\ CallerStake(ret'.call).exists
         /\ now < CallerStake(ret'.call).lockUntil)
        => ret'.err = "StakeLocked" ]_vars

\* C8 amended -- every unstake call made strictly before the stake's
\* lockUntil fails and changes nothing: with StakeLocked when the amount is
\* positive and at most the capsule's totalStake, with InsufficientPayment
\* when the amount is 0 and with InsufficientStake when it exceeds
\* totalStake.
C8_UnstakeGating ==
    [][ (/\ CallOf("unstake")
         /\ CallerStake(ret'.call).exists
         /\ now < CallerStake(ret'.call).lockUntil)
        => /\ ret'.err =
                 IF ret'.call.amount = 0 THEN "InsufficientPayment"
                 ELSE IF capsules[CallerKey(ret'.call)].totalStake < ret'.call.amount
                      THEN "InsufficientStake"
                 ELSE "StakeLocked"
           /\ World' = World ]_vars

\* an unstake within the balance was turned down because of the lock
C8_Witness ==
    /\ ret.call.op = "unstake"
    /\ ret.err = "StakeLocked"
    /\ CallerStake(ret.call).exists
    /\ now < CallerStake(ret.call).lockUntil
    /\ 0 < ret.call.amount
    /\ ret.call.amount <= capsules[CallerKey(ret.call)].totalStake

-----------------------------------------------------------------------------
\* C9 -- unstake by the creator at a time now >= lockUntil (now = lockUntil
\* included), with 0 < amount <= totalStake and an existing stake record,
\* reduces totalStake by exactly amount, sets updatedAt to now and sends
\* exactly amount to the caller; when the caller accepts the transfer the
\* call succeeds, these left as they are and the unstake logged.
C9_UnstakeAfterLock ==
    [][ /\ (/\ CallOf("unstake")
            /\ capsules[CallerKey(ret'.call)].exists
            /\ CallerStake(ret'.call).exists
            /\ 0 < ret'.call.amount
            /\ ret'.call.amount <= capsules[CallerKey(ret'.call)].totalStake
            /\ now >= CallerStake(ret'.call).lockUntil)
           => LET k == CallerKey(ret'.call)
                  caller == ret'.call.sender
                  amount == ret'.call.amount
              IN  /\ ret'.err = "pending"
                  /\ capsules'[k].totalStake = capsules[k].totalStake - amount
                  /\ capsules'[k].updatedAt = now
                  /\ wallet'[caller] = wallet[caller] + amount
                  /\ balance' = balance - amount
        /\ (ReturnOf("unstake") /\ ret'.err = "ok")
           => /\ capsules' = capsules
              /\ stakes' = stakes
              /\ wallet' = wallet
              /\ balance' = balance
              /\ unstakedFromCapsuleHistory' =
                    Append(unstakedFromCapsuleHistory,
                           [staker |-> Top.call.sender, capsuleId |-> Top.call.id,
                            amount |-> Top.call.amount, timestamp |-> now]) ]_vars

\* an unstake made at the very second the lock ended has succeeded
C9_Witness ==
    /\ stack = <<>>
    /\ ret.call.op = "unstake"
    /\ ret.err = "ok"
    /\ now = CallerStake(ret.call).lockUntil
    /\ capsules[CallerKey(ret.call)].updatedAt = now
    /\ Len(unstakedFromCapsuleHistory) = 1
    /\ unstakedFromCapsuleHistory[1].amount = ret.call.amount

-----------------------------------------------------------------------------
\* C10 -- Lock reset: after every successful stake at time T, the first
\* deposit or a top-up, the stake's lockUntil is T + 604800; so a top-up at
\* a later time T' > T puts lockUntil at T' + 604800 and a position that
\* could be unstaked is locked again, for its whole balance.
C10_LockReset ==
    [][ (CallOf("stake") /\ ret'.err = "ok")
        => LET k == CallerKey(ret'.call)
               caller == ret'.call.sender
           IN  /\ stakes'[k][caller].exists
               /\ stakes'[k][caller].lockUntil = now + 604800
               /\ now < stakes'[k][caller].lockUntil
               /\ \A amount \in 1 .. capsules'[k].totalStake :
                     unstake(World', caller, ret'.call.id, amount, now').err
                        = "StakeLocked" ]_vars

\* a top-up made when the first deposit could already be unstaked
C10_Witness ==
    /\ ret.call.op = "stake"
    /\ ret.err = "ok"
    /\ Len(stakedOnCapsuleHistory) = 2
    /\ stakedOnCapsuleHistory[1].timestamp + 604800 <= stakedOnCapsuleHistory[2].timestamp
    /\ stakedOnCapsuleHistory[2].timestamp = now
    /\ CallerStake(ret.call).lockUntil = now + 604800
    /\ capsules[CallerKey(ret.call)].totalStake =
          stakedOnCapsuleHistory[1].amount + stakedOnCapsuleHistory[2].amount

-----------------------------------------------------------------------------
\* The last deposit a staker has made on a capsule id, as the staking log
\* has it (0 when there is none)
RECURSIVE LastDepositAt(_, _, _)
LastDepositAt(log, staker, id) ==
    IF log = <<>> THEN 0
    ELSE IF log[Len(log)].staker = staker /\ log[Len(log)].capsuleId = id
         THEN log[Len(log)].timestamp
    ELSE LastDepositAt(SubSeq(log, 1, Len(log) - 1), staker, id)

\* C11 -- Stake record invariant: in every reachable state every existing
\* stake record has lockUntil = stakedAt + LOCK_PERIOD_SECONDS, stakedAt
\* being the time of the staker's last deposit, top-ups made later than the
\* first deposit included.
C11_StakeRecordInvariant ==
    \A k \in Keys, a \in Addresses :
        stakes[k][a].exists =>
            /\ stakes[k][a].lockUntil = stakes[k][a].stakedAt + LOCK_PERIOD_SECONDS
            /\ stakes[k][a].stakedAt = LastDepositAt(stakedOnCapsuleHistory, a, k[2])

-----------------------------------------------------------------------------
\* C12 -- Self-stake only: a stake call with a deposit within
\* [MIN_STAKE_AMOUNT, MAX_STAKE_AMOUNT] by a principal other than the
\* creator of a capsule, naming that capsule's id, fails with Unauthorized
\* and leaves the capsule's totalStake as it was.
C12_SelfStakeOnly ==
    [][ \A creator \in Addresses :
          (/\ CallOf("stake")
           /\ ret'.call.sender # creator
           /\ capsules[keccak256(creator, ret'.call.id)].exists
           /\ capsules[keccak256(creator, ret'.call.id)].creator = creator
           /\ ret'.call.value >= MIN_STAKE_AMOUNT
           /\ ret'.call.value <= MAX_STAKE_AMOUNT)
          => /\ ret'.err = "Unauthorized"
             /\ capsules'[keccak256(creator, ret'.call.id)].totalStake =
                   capsules[keccak256(creator, ret'.call.id)].totalStake ]_vars

-----------------------------------------------------------------------------
\* C13 -- Uniqueness: for every (owner, id), registerAgent (createCapsule)
\* with valid inputs succeeds when the key is free, writing the record with
\* createdAt = now, the id on the owner's list and one history entry; every
\* later call by the same owner with the same id fails and leaves the
\* record, its createdAt, the owner list and the history log as they were.
C13_Uniqueness ==
    [][ /\ CallOf("registerAgent")
           => LET owner == ret'.call.sender
                  id == ret'.call.id
                  k == keccak256(owner, id)
              IN  IF agents[k].exists
                  THEN /\ ret'.err = "Agent already exists"
                       /\ agents' = agents
                       /\ ownerAgents' = ownerAgents
                       /\ agentRegisteredHistory' = agentRegisteredHistory
                       /\ World' = World
                  ELSE /\ ret'.err = "ok"
                       /\ agents'[k].exists
                       /\ agents'[k].owner = owner
                       /\ agents'[k].createdAt = now
                       /\ ownerAgents'[owner] = Append(ownerAgents[owner], id)
                       /\ Len(agentRegisteredHistory') = Len(agentRegisteredHistory) + 1
        /\ (/\ CallOf("createCapsule")
            /\ ret'.call.amount >= MIN_PRICE_PER_QUERY
            /\ ret'.call.amount <= MAX_PRICE_PER_QUERY)
           => LET owner == ret'.call.sender
                  id == ret'.call.id
                  k == keccak256(owner, id)
              IN  IF capsules[k].exists
                  THEN /\ ret'.err = "Capsule already exists"
                       /\ capsules' = capsules
                       /\ ownerCapsules' = ownerCapsules
                       /\ capsuleCreatedHistory' = capsuleCreatedHistory
                       /\ World' = World
                  ELSE /\ ret'.err = "ok"
                       /\ capsules'[k].exists
                       /\ capsules'[k].creator = owner
                       /\ capsules'[k].createdAt = now
                       /\ capsules'[k].price = ret'.call.amount
                       /\ ownerCapsules'[owner] = Append(ownerCapsules[owner], id)
                       /\ Len(capsuleCreatedHistory') = Len(capsuleCreatedHistory) + 1
      ]_vars

\* a second createCapsule of the same id, made a lock period after the
\* first and at another price, has failed; the agent of the same owner was
\* registered once
C13_Witness ==
    /\ ret.call.op = "createCapsule"
    /\ ret.err = "Capsule already exists"
    /\ capsules[CallerKey(ret.call)].exists
    /\ capsules[CallerKey(ret.call)].createdAt < now
    /\ capsules[CallerKey(ret.call)].price # ret.call.amount
    /\ ownerCapsules[ret.call.sender] = <<ret.call.id>>
    /\ Len(capsuleCreatedHistory) = 1
    /\ Len(agentRegisteredHistory) = 1

-----------------------------------------------------------------------------
-----------------------------------------------------------------------------
\* C15 -- Transfer-failure atomicity: when the value transfer of unstake,
\* of withdrawEarnings or of the queryCapsule refund fails, the call fails
\* with TransferFailed and what it did before the transfer is undone: the
\* state is the one the call was made in, so totalStake is not reduced,
\* totalEarnings and Capsule.earnings are not zeroed (a withdrawEarnings made
\* next sends them), the query is neither credited nor counted and has its
\* payment back, and no history entry or event is added.
C15_TransferFailureAtomicity ==
    [][ /\ (CallStep /\ ret'.err = "pending")
           => /\ ret'.call.op \in {"unstake", "withdrawEarnings", "queryCapsule"}
              /\ stack'[Len(stack')].call = ret'.call
              /\ stack'[Len(stack')].snap = World
        /\ (ReturnStep /\ ret'.err # "ok")
           => LET k == KeyOf(Top.call)
                  was == Top.snap
              IN  /\ ret' = [call |-> Top.call, err |-> "TransferFailed"]
                  /\ capsules'[k].totalStake = was.capsules[k].totalStake
                  /\ capsules'[k].earnings = was.capsules[k].earnings
                  /\ earnings'[k] = was.earnings[k]
                  /\ Top.call.op = "unstake"
                     => capsules'[k].totalStake >= Top.call.amount
                  /\ Top.call.op = "withdrawEarnings"
                     => LET again == withdrawEarnings(World', Top.call.sender,
                                                      Top.call.id, now')
                        IN  /\ earnings'[k].totalEarnings = Top.pay
                            /\ again.err = "ok"
                            /\ again.pay = Top.pay
                  /\ Top.call.op = "queryCapsule"
                     => /\ earnings'[k].queryCount = was.earnings[k].queryCount
                        /\ Top.pay = Top.call.value - Top.cost
                  /\ balance' = was.balance
                  /\ wallet' = was.wallet
                  /\ events' = was.events
                  /\ unstakedFromCapsuleHistory' = was.unstakedFromCapsuleHistory
                  /\ earningsWithdrawnHistory' = was.earningsWithdrawnHistory
                  /\ capsuleQueriedHistory' = was.capsuleQueriedHistory ]_vars

\* an unstake whose transfer the staker refused: the stake is whole
C15_Witness ==
    /\ stack = <<>>
    /\ ret.call.op = "unstake"
    /\ ret.err = "TransferFailed"
    /\ capsules[CallerKey(ret.call)].totalStake = stakedOnCapsuleHistory[1].amount
    /\ balance = capsules[CallerKey(ret.call)].totalStake
    /\ now >= CallerStake(ret.call).lockUntil
    /\ unstakedFromCapsuleHistory = <<>>
    /\ events[Len(events)].name = "StakedOnCapsule"

-----------------------------------------------------------------------------
\* What the ledger owes: the earnings of all capsules, and their stakes
RECURSIVE SumOver(_, _)
SumOver(f, S) ==
    IF S = {} THEN 0
    ELSE LET k == CHOOSE x \in S : TRUE
         IN  f[k] + SumOver(f, S \ {k})
EarningsOwed == SumOver([k \in Keys |-> earnings[k].totalEarnings], Keys)
StakesHeld == SumOver([k \in Keys |-> capsules[k].totalStake], Keys)

\* C16 -- Creators can withdraw at any time: in every reachable state the
\* value the ledger holds covers the totalEarnings of every capsule (of all
\* of them together, beside all stakes), so for every capsule with
\* totalEarnings > 0 a withdrawEarnings by its creator passes the reserve
\* check and sends exactly totalEarnings, whatever the lock state, the
\* stakes and the other capsules' activity; it then succeeds when the
\* creator accepts the transfer.
C16_ReserveCoversEarnings ==
    /\ [](/\ balance >= EarningsOwed + StakesHeld
          /\ \A k \in Keys :
                earnings[k].totalEarnings > 0
                => /\ capsules[k].exists
                   /\ balance >= earnings[k].totalEarnings
                   /\ withdrawEarnings(World, k[1], k[2], now) =
                         Proceed(withdrawEarnings(World, k[1], k[2], now).w,
                                 earnings[k].totalEarnings))
    /\ [][ /\ (/\ CallOf("withdrawEarnings")
               /\ earnings[KeyOf(ret'.call)].totalEarnings > 0)
              => /\ ret'.err = "pending"
                 /\ stack'[Len(stack')].pay = earnings[KeyOf(ret'.call)].totalEarnings
           /\ (/\ ReturnOf("withdrawEarnings")
               /\ World' # Top.snap)
              => ret'.err = "ok" ]_vars

\* a creator has withdrawn the earnings of a capsule whose stake is still
\* locked: the ledger is left with the stake
C16_Witness ==
    /\ stack = <<>>
    /\ ret.call.op = "withdrawEarnings"
    /\ ret.err = "ok"
    /\ paidOut[KeyOf(ret.call)] > 0
    /\ capsules[KeyOf(ret.call)].totalStake > 0
    /\ now < CallerStake(ret.call).lockUntil
    /\ balance = capsules[KeyOf(ret.call)].totalStake
    /\ Len(earningsWithdrawnHistory) = 1

-----------------------------------------------------------------------------
\* The seven history logs, by the function that writes them
HistoryLogs ==
    [registerAgent |-> agentRegisteredHistory,
     createCapsule |-> capsuleCreatedHistory,
     stake |-> stakedOnCapsuleHistory,
     unstake |-> unstakedFromCapsuleHistory,
     updateCapsulePrice |-> priceUpdatedHistory,
     withdrawEarnings |-> earningsWithdrawnHistory,
     queryCapsule |-> capsuleQueriedHistory]

\* The logs as they were in the state w
HistoryLogsOf(w) ==
    [registerAgent |-> w.agentRegisteredHistory,
     createCapsule |-> w.capsuleCreatedHistory,
     stake |-> w.stakedOnCapsuleHistory,
     unstake |-> w.unstakedFromCapsuleHistory,
     updateCapsulePrice |-> w.priceUpdatedHistory,
     withdrawEarnings |-> w.earningsWithdrawnHistory,
     queryCapsule |-> w.capsuleQueriedHistory]

\* The entry a successful call c leaves in its log; cost is the price a
\* query was charged, pay the earnings a withdrawal sent
EntryOf(c, cost, pay, timestamp) ==
    CASE c.op = "registerAgent" ->
            [owner |-> c.sender, agentId |-> c.id, timestamp |-> timestamp]
      [] c.op = "createCapsule" ->
            [creator |-> c.sender, capsuleId |-> c.id, timestamp |-> timestamp]
      [] c.op = "stake" ->
            [staker |-> c.sender, capsuleId |-> c.id, amount |-> c.value,
             timestamp |-> timestamp]
      [] c.op = "unstake" ->
            [staker |-> c.sender, capsuleId |-> c.id, amount |-> c.amount,
             timestamp |-> timestamp]
      [] c.op = "updateCapsulePrice" ->
            [capsuleId |-> c.id, newPrice |-> c.amount, timestamp |-> timestamp]
      [] c.op = "withdrawEarnings" ->
            [creator |-> c.sender, amount |-> pay, timestamp |-> timestamp]
      [] c.op = "queryCapsule" ->
            [user |-> c.sender, capsuleId |-> c.id, amountPaid |-> cost,
             timestamp |-> timestamp]

\* The caller and the identifier an entry carries, if it carries them
CallerIn(e) ==
    IF "owner" \in DOMAIN e THEN e.owner
    ELSE IF "creator" \in DOMAIN e THEN e.creator
    ELSE IF "staker" \in DOMAIN e THEN e.staker
    ELSE IF "user" \in DOMAIN e THEN e.user
    ELSE ZeroAddress
IdIn(e) ==
    IF "agentId" \in DOMAIN e THEN e.agentId
    ELSE IF "capsuleId" \in DOMAIN e THEN e.capsuleId
    ELSE ""

IsPrefix(s, t) == Len(s) <= Len(t) /\ s = SubSeq(t, 1, Len(s))

\* a step in which a call ends successfully, and that call
Completes == (CallStep \/ ReturnStep) /\ ret'.err = "ok"

\* C17 as stated -- each successful state-changing operation appends
\* exactly one entry to the log of its own kind, and the entry carries the
\* caller, the identifier (agent or capsule id) and the current timestamp;
\* no entry of any log is modified or removed by it.
C17_Original ==
    [][ Completes
        => LET c == ret'.call
               log == HistoryLogs[c.op]
               after == HistoryLogs'[c.op]
           IN  /\ Len(after) = Len(log) + 1
               /\ \A op \in DOMAIN HistoryLogs : IsPrefix(HistoryLogs[op], HistoryLogs'[op])
               /\ CallerIn(after[Len(after)]) = c.sender
               /\ IdIn(after[Len(after)]) = c.id
               /\ after[Len(after)].timestamp = now ]_vars

\* C17 amended -- each successful state-changing operation appends exactly
\* one entry to the end of the log of its own kind and leaves every other
\* log as it is; the entry carries the current timestamp and the fields of
\* its kind: (owner, agentId), (creator, capsuleId), (staker, capsuleId,
\* amount) for staked and unstaked, (capsuleId, newPrice) without the
\* caller for price-updated, (creator, amount) without the capsule id for
\* earnings-withdrawn, (user, capsuleId, amountPaid = price charged) for
\* capsule-queried.  A call that fails or waits in its transfer writes no
\* log; the only entries ever removed are those of calls undone by the
\* revert of the call whose transfer they were nested in, which leaves each
\* log as it was when that call was made.  So the order of the entries is
\* the order in which the operations ended.
C17_HistoryLog ==
    [][ /\ (CallStep /\ ret'.err = "ok")
           => HistoryLogs' =
                 [HistoryLogs EXCEPT ![ret'.call.op] =
                     Append(@, EntryOf(ret'.call, capsules[KeyOf(ret'.call)].price,
                                       0, now))]
        /\ (CallStep /\ ret'.err # "ok") => HistoryLogs' = HistoryLogs
        /\ (ReturnStep /\ ret'.err = "ok")
           => /\ ret'.call = Top.call
              /\ HistoryLogs' =
                    [HistoryLogs EXCEPT ![Top.call.op] =
                        Append(@, EntryOf(Top.call, Top.cost, Top.pay, now))]
        /\ (ReturnStep /\ ret'.err # "ok")
           => /\ HistoryLogs' = HistoryLogsOf(Top.snap)
              /\ \A op \in DOMAIN HistoryLogs : IsPrefix(HistoryLogs'[op], HistoryLogs[op])
        /\ now' # now => HistoryLogs' = HistoryLogs ]_vars

\* two price updates a lock period apart, logged in that order, neither
\* entry naming the caller
C17_Witness ==
    /\ ret.call.op = "updateCapsulePrice"
    /\ ret.err = "ok"
    /\ Len(priceUpdatedHistory) = 2
    /\ priceUpdatedHistory[1].timestamp < priceUpdatedHistory[2].timestamp
    /\ priceUpdatedHistory[2] =
          [capsuleId |-> ret.call.id, newPrice |-> ret.call.amount, timestamp |-> now]
    /\ CallerIn(priceUpdatedHistory[2]) = ZeroAddress
    /\ Len(capsuleCreatedHistory) = 1

-----------------------------------------------------------------------------
\* The amounts a staker's entries of a staking log add up to
RECURSIVE LoggedAmount(_, _, _)
LoggedAmount(log, staker, id) ==
    IF log = <<>> THEN 0
    ELSE (IF log[Len(log)].staker = staker /\ log[Len(log)].capsuleId = id
          THEN log[Len(log)].amount ELSE 0)
         + LoggedAmount(SubSeq(log, 1, Len(log) - 1), staker, id)

\* The value the unstake calls still waiting in their transfer have sent
RECURSIVE InTransfer(_, _, _)
InTransfer(frames, staker, id) ==
    IF frames = <<>> THEN 0
    ELSE (IF /\ frames[Len(frames)].call.op = "unstake"
             /\ frames[Len(frames)].call.sender = staker
             /\ frames[Len(frames)].call.id = id
          THEN frames[Len(frames)].pay ELSE 0)
         + InTransfer(SubSeq(frames, 1, Len(frames) - 1), staker, id)

\* Deposited by stake on the capsule at key k, and sent by unstake from it
Deposited(k) == LoggedAmount(stakedOnCapsuleHistory, k[1], k[2])
Unstaked(k) == LoggedAmount(unstakedFromCapsuleHistory, k[1], k[2])
                  + InTransfer(stack, k[1], k[2])

\* C18 -- Staking reentrancy and ordering: unstake reduces totalStake
\* before its value transfer and writes the history entry and the event
\* only when the transfer has succeeded; a reentrant unstake made during
\* the transfer meets the reduced totalStake (an amount above it fails with
\* InsufficientStake); so, over any nesting of calls, the value unstake has
\* sent for a capsule never exceeds the value stake has deposited on it,
\* and totalStake is the difference.
C18_UnstakeOrdering ==
    /\ [](\A k \in Keys :
              /\ Unstaked(k) <= Deposited(k)
              /\ capsules[k].totalStake = Deposited(k) - Unstaked(k))
    /\ [][ /\ (CallOf("unstake") /\ ret'.err = "pending")
              => LET k == CallerKey(ret'.call)
                     c == ret'.call
                 IN  /\ capsules'[k].totalStake = capsules[k].totalStake - c.amount
                     /\ balance' = balance - c.amount
                     /\ stack'[Len(stack')].pay = c.amount
                     /\ unstakedFromCapsuleHistory' = unstakedFromCapsuleHistory
                     /\ events' = events
                     /\ \A a \in 1 .. capsules[k].totalStake :
                           a > capsules'[k].totalStake
                           => unstake(World', c.sender, c.id, a, now').err
                                 = "InsufficientStake"
           /\ (CallOf("unstake") /\ ret'.err # "pending") => World' = World
           /\ (ReturnOf("unstake") /\ ret'.err = "ok")
              => /\ capsules' = capsules
                 /\ balance' = balance
                 /\ events' = Append(events, [name |-> "UnstakedFromCapsule",
                                              who |-> Top.call.sender,
                                              id |-> Top.call.id,
                                              amount |-> Top.call.amount])
                 /\ Len(unstakedFromCapsuleHistory') =
                       Len(unstakedFromCapsuleHistory) + 1 ]_vars

\* an unstake of the whole stake waits in its transfer and the staker's
\* reentrant unstake of the same amount has failed on the reduced totalStake
C18_Witness ==
    /\ stack # <<>>
    /\ Top.call.op = "unstake"
    /\ ret.call = Top.call
    /\ ret.err = "InsufficientStake"
    /\ ret.call.amount <= Top.snap.capsules[CallerKey(ret.call)].totalStake
    /\ capsules[CallerKey(ret.call)].totalStake < ret.call.amount
    /\ Unstaked(CallerKey(ret.call)) = Deposited(CallerKey(ret.call))
    /\ unstakedFromCapsuleHistory = <<>>

-----------------------------------------------------------------------------
\* C19 -- The price of an existing capsule changes only by a successful
\* updateCapsulePrice made by the capsule's creator with the capsule's id:
\* no call by another principal and no other operation (stake, unstake,
\* queryCapsule, withdrawEarnings, createCapsule on another key) changes
\* it; a successful update sets price to newPrice and updatedAt to now.
\* (A price an update set inside a value transfer goes back with that
\* update when the call waiting in the transfer reverts.)
C19_PriceChangesByCreatorOnly ==
    [][ /\ \A k \in Keys :
              (capsules[k].exists /\ capsules'[k].price # capsules[k].price)
              => \/ /\ CallStep
                    /\ ret'.err = "ok"
                    /\ ret'.call.op = "updateCapsulePrice"
                    /\ ret'.call.sender = capsules[k].creator
                    /\ k = keccak256(ret'.call.sender, ret'.call.id)
                    /\ capsules'[k].price = ret'.call.amount
                 \/ /\ ReturnStep
                    /\ ret'.err = "TransferFailed"
                    /\ capsules'[k] = Top.snap.capsules[k]
        /\ (CallOf("updateCapsulePrice") /\ ret'.err = "ok")
           => LET k == CallerKey(ret'.call)
              IN  /\ capsules[k].exists
                  /\ capsules[k].creator = ret'.call.sender
                  /\ capsules' = [capsules EXCEPT ![k].price = ret'.call.amount,
                                                  ![k].updatedAt = now] ]_vars

\* two creators hold a capsule of the same id; one has repriced its own and
\* the other's, never updated, has another price
C19_Witness ==
    /\ ret.call.op = "updateCapsulePrice"
    /\ ret.err = "ok"
    /\ \E other \in Addresses \ {ret.call.sender} :
          /\ capsules[keccak256(other, ret.call.id)].exists
          /\ capsules[keccak256(other, ret.call.id)].updatedAt =
                capsules[keccak256(other, ret.call.id)].createdAt
          /\ capsules[keccak256(other, ret.call.id)].price # ret.call.amount
    /\ capsules[CallerKey(ret.call)].price = ret.call.amount
    /\ capsules[CallerKey(ret.call)].updatedAt = now
    /\ capsules[CallerKey(ret.call)].createdAt < now

-----------------------------------------------------------------------------
\* C20 -- Price at time of call: an accepted queryCapsule charges and
\* credits exactly the price the capsule has when the call is made, and
\* reports that price when it ends, whatever happened to the price during
\* its refund; a successful updateCapsulePrice leaves the earnings already
\* credited as they are, and every query made after it credits the new
\* price.
C20_PriceAtTimeOfCall ==
    [][ /\ (CallOf("queryCapsule") /\ ret'.err \in {"ok", "pending"})
           => LET k == KeyOf(ret'.call)
                  P == capsules[k].price
              IN  /\ ret'.call.value >= P
                  /\ earnings'[k].totalEarnings = earnings[k].totalEarnings + P
                  /\ capsules'[k].earnings = capsules[k].earnings + P
                  /\ credited'[k] = credited[k] + P
                  /\ balance' = balance + P
                  /\ ret'.err = "pending" => stack'[Len(stack')].cost = P
                  /\ ret'.err = "ok"
                     => capsuleQueriedHistory'[Len(capsuleQueriedHistory')].amountPaid = P
        /\ (ReturnOf("queryCapsule") /\ ret'.err = "ok")
           => /\ capsuleQueriedHistory'[Len(capsuleQueriedHistory')].amountPaid = Top.cost
              /\ events'[Len(events')].amount = Top.cost
              /\ Top.cost = Top.snap.capsules[KeyOf(Top.call)].price
        /\ (CallOf("updateCapsulePrice") /\ ret'.err = "ok")
           => LET k == CallerKey(ret'.call)
                  newPrice == ret'.call.amount
              IN  /\ earnings' = earnings
                  /\ capsules'[k].earnings = capsules[k].earnings
                  /\ credited' = credited
                  /\ balance' = balance
                  /\ \A user \in Addresses, V \in Payments :
                        LET q == queryCapsule(Receive(World', user, V), user,
                                              ret'.call.sender, ret'.call.id, V, now')
                        IN  IF V < newPrice THEN q.err = "InsufficientPayment"
                            ELSE /\ q.err = "ok"
                                 /\ q.pay = V - newPrice
                                 /\ q.w.earnings[k].totalEarnings =
                                       earnings[k].totalEarnings + newPrice ]_vars

\* a query at the first price, a price update, a query at the new price:
\* the earnings are the sum of the two prices
C20_Witness ==
    /\ ret.call.op = "queryCapsule"
    /\ ret.err = "ok"
    /\ Len(capsuleQueriedHistory) = 2
    /\ Len(priceUpdatedHistory) = 1
    /\ capsuleQueriedHistory[2].amountPaid = priceUpdatedHistory[1].newPrice
    /\ capsuleQueriedHistory[1].amountPaid # capsuleQueriedHistory[2].amountPaid
    /\ capsules[KeyOf(ret.call)].price = priceUpdatedHistory[1].newPrice
    /\ earnings[KeyOf(ret.call)].totalEarnings =
          capsuleQueriedHistory[1].amountPaid + capsuleQueriedHistory[2].amountPaid

-----------------------------------------------------------------------------
\* a step in which a refused transfer reverts the call that waited in it,
\* and with it every call made during the transfer
RevertStep == ReturnStep /\ ret'.err # "ok"

\* C21 -- Timestamps: the block timestamp never decreasing, every capsule
\* has createdAt <= updatedAt <= now in every reachable state; no operation
\* lowers updatedAt or changes createdAt of an existing capsule.  (The
\* revert of a call restores the capsule as it was when the call was made,
\* updatedAt included.)
C21_Timestamps ==
    /\ [](\A k \in Keys :
              capsules[k].exists => /\ capsules[k].createdAt <= capsules[k].updatedAt
                                    /\ capsules[k].updatedAt <= now)
    /\ [][ /\ now' >= now
           /\ \A k \in Keys :
                 capsules[k].exists
                 => IF RevertStep
                    THEN /\ capsules'[k] = Top.snap.capsules[k]
                         /\ capsules'[k].exists
                            => /\ capsules'[k].createdAt = capsules[k].createdAt
                               /\ capsules'[k].updatedAt <= capsules[k].updatedAt
                    ELSE /\ capsules'[k].exists
                         /\ capsules'[k].createdAt = capsules[k].createdAt
                         /\ capsules'[k].updatedAt >= capsules[k].updatedAt ]_vars

\* a capsule repriced a lock period after its creation and unstaked from
\* after that
C21_Witness ==
    /\ stack = <<>>
    /\ ret.call.op = "unstake"
    /\ ret.err = "ok"
    /\ Len(priceUpdatedHistory) = 1
    /\ capsules[CallerKey(ret.call)].createdAt < priceUpdatedHistory[1].timestamp
    /\ capsules[CallerKey(ret.call)].updatedAt = now
    /\ capsules[CallerKey(ret.call)].createdAt = capsuleCreatedHistory[1].timestamp

-----------------------------------------------------------------------------
\* C22 -- stake deposit bounds: a stake call with a deposit below
\* MIN_STAKE_AMOUNT fails with InsufficientPayment and one with a deposit
\* above MAX_STAKE_AMOUNT with StakeTooHigh, the deposit going back; a stake
\* by the creator on an existing capsule with a deposit A from
\* MIN_STAKE_AMOUNT to MAX_STAKE_AMOUNT, both included, succeeds and
\* increases the capsule's totalStake by exactly A, A passing from the
\* caller to the ledger.
C22_StakeDepositBounds ==
    [][ CallOf("stake")
        => LET c == ret'.call
               A == c.value
               k == CallerKey(c)
           IN  /\ A < MIN_STAKE_AMOUNT
                  => (ret'.err = "InsufficientPayment" /\ World' = World)
               /\ A > MAX_STAKE_AMOUNT
                  => (ret'.err = "StakeTooHigh" /\ World' = World)
               /\ (/\ MIN_STAKE_AMOUNT <= A
                   /\ A <= MAX_STAKE_AMOUNT
                   /\ capsules[k].exists
                   /\ capsules[k].creator = c.sender)
                  => /\ ret'.err = "ok"
                     /\ capsules'[k].totalStake = capsules[k].totalStake + A
                     /\ balance' = balance + A
                     /\ wallet'[c.sender] = wallet[c.sender] - A
                     /\ stakes'[k][c.sender].exists ]_vars

\* a deposit of exactly MAX_STAKE_AMOUNT on top of one of MIN_STAKE_AMOUNT
C22_Witness ==
    /\ ret.call.op = "stake"
    /\ ret.err = "ok"
    /\ ret.call.value = MAX_STAKE_AMOUNT
    /\ capsules[CallerKey(ret.call)].totalStake = MAX_STAKE_AMOUNT + MIN_STAKE_AMOUNT
    /\ balance = MAX_STAKE_AMOUNT + MIN_STAKE_AMOUNT
    /\ Len(stakedOnCapsuleHistory) = 2

-----------------------------------------------------------------------------
\* C23 -- A stake record, once the first deposit has created it, exists for
\* ever: no operation deletes it (the revert of a call leaves it as it was
\* when the call was made); unstaking the whole balance leaves the record
\* with exists = TRUE and totalStake = 0, and a further unstake of any
\* positive amount then fails with InsufficientStake.
C23_StakeRecordPersists ==
    [][ /\ \A k \in Keys, a \in Addresses :
              stakes[k][a].exists
              => IF RevertStep THEN stakes'[k][a] = Top.snap.stakes[k][a]
                 ELSE stakes'[k][a].exists
        /\ (/\ CallOf("unstake")
            /\ ret'.err = "pending"
            /\ ret'.call.amount = capsules[CallerKey(ret'.call)].totalStake)
           => LET c == ret'.call
                  k == CallerKey(c)
              IN  /\ stakes'[k][c.sender].exists
                  /\ capsules'[k].totalStake = 0
                  /\ \A amount \in StakingWithdrawals \ {0} :
                        unstake(World', c.sender, c.id, amount, now').err
                           = "InsufficientStake"
        /\ (ReturnOf("unstake") /\ ret'.err = "ok")
           => /\ stakes'[CallerKey(Top.call)][Top.call.sender].exists
              /\ capsules'[CallerKey(Top.call)].totalStake =
                    capsules[CallerKey(Top.call)].totalStake ]_vars

\* the whole stake was unstaked, and the next unstake has failed on the
\* empty record
C23_Witness ==
    /\ stack = <<>>
    /\ ret.call.op = "unstake"
    /\ ret.err = "InsufficientStake"
    /\ ret.call.amount > 0
    /\ CallerStake(ret.call).exists
    /\ capsules[CallerKey(ret.call)].totalStake = 0
    /\ Len(unstakedFromCapsuleHistory) = 1
    /\ unstakedFromCapsuleHistory[1].amount = Deposited(CallerKey(ret.call))

-----------------------------------------------------------------------------
\* C24 -- unstake, partial or full, never changes the stake record: the
\* stake records change only by a successful stake (or by the revert of a
\* call, which restores them as they were when the call was made); when an
\* unstake has succeeded and no deposit was made during its transfer,
\* stakedAt, lockUntil and exists are what they were before the unstake and
\* the position is still Unlockable (now >= lockUntil).
C24_UnstakeKeepsStakeRecord ==
    [][ /\ stakes' # stakes
           => \/ CallOf("stake") /\ ret'.err = "ok"
              \/ RevertStep /\ stakes' = Top.snap.stakes
        /\ CallOf("unstake") => stakes' = stakes
        /\ (/\ ReturnOf("unstake")
            /\ ret'.err = "ok"
            /\ Len(stakedOnCapsuleHistory') = Len(Top.snap.stakedOnCapsuleHistory))
           => LET c == Top.call
                  k == CallerKey(c)
              IN  /\ stakes'[k][c.sender] = Top.snap.stakes[k][c.sender]
                  /\ stakes'[k][c.sender].exists
                  /\ now' >= stakes'[k][c.sender].lockUntil ]_vars

\* a partial unstake has succeeded: part of the stake is still there, the
\* record carries the time of the deposit and its lock has passed
C24_Witness ==
    /\ stack = <<>>
    /\ ret.call.op = "unstake"
    /\ ret.err = "ok"
    /\ capsules[CallerKey(ret.call)].totalStake > 0
    /\ Len(unstakedFromCapsuleHistory) = 1
    /\ Len(stakedOnCapsuleHistory) = 1
    /\ CallerStake(ret.call).exists
    /\ CallerStake(ret.call).stakedAt = stakedOnCapsuleHistory[1].timestamp
    /\ CallerStake(ret.call).lockUntil =
          stakedOnCapsuleHistory[1].timestamp + LOCK_PERIOD_SECONDS
    /\ now >= CallerStake(ret.call).lockUntil

-----------------------------------------------------------------------------
\* C25 as stated -- registerAgent fails with EmptyString when agentId or
\* name is empty and with InvalidMetadataLength when agentId exceeds 32
\* bytes or name exceeds 128 bytes; createCapsule fails with EmptyString for
\* an empty capsuleId and with InvalidMetadataLength for a capsuleId over 32
\* bytes.
C25_Original ==
    [][ /\ CallOf("registerAgent")
           => LET c == ret'.call
              IN  /\ (Len(c.id) < MIN_STRING_LENGTH \/ Len(c.name) < MIN_STRING_LENGTH)
                     => ret'.err = "EmptyString"
                  /\ (Len(c.id) > 32 \/ Len(c.name) > 128)
                     => ret'.err = "InvalidMetadataLength"
        /\ CallOf("createCapsule")
           => LET c == ret'.call
              IN  /\ Len(c.id) < MIN_STRING_LENGTH => ret'.err = "EmptyString"
                  /\ Len(c.id) > 32 => ret'.err = "InvalidMetadataLength" ]_vars

\* C25 -- Registry validation: registerAgent fails with EmptyString when
\* agentId or name is empty and, when neither is empty, with
\* InvalidMetadataLength when agentId exceeds 32 bytes or name exceeds 128
\* bytes; createCapsule fails with EmptyString for an empty capsuleId and
\* with InvalidMetadataLength for a capsuleId over 32 bytes; in both, these
\* errors are reported whatever the price and whether or not the record
\* exists already, they are reported for no other input, and the failing
\* call changes nothing.
C25_RegistryValidation ==
    [][ /\ CallOf("registerAgent")
           => LET c == ret'.call
              IN  IF Len(c.id) < MIN_STRING_LENGTH \/ Len(c.name) < MIN_STRING_LENGTH
                  THEN ret'.err = "EmptyString" /\ World' = World
                  ELSE IF Len(c.id) > 32 \/ Len(c.name) > 128
                  THEN ret'.err = "InvalidMetadataLength" /\ World' = World
                  ELSE ret'.err \in {"ok", "Agent already exists"}
        /\ CallOf("createCapsule")
           => LET c == ret'.call
              IN  IF Len(c.id) < MIN_STRING_LENGTH
                  THEN ret'.err = "EmptyString" /\ World' = World
                  ELSE IF Len(c.id) > 32
                  THEN ret'.err = "InvalidMetadataLength" /\ World' = World
                  ELSE ret'.err \in {"ok", "InvalidPrice", "PriceTooHigh",
                                     "Capsule already exists"} ]_vars

\* an agent is registered, and registering it again with an empty name has
\* failed with EmptyString
C25_Witness ==
    /\ ret.call.op = "registerAgent"
    /\ ret.err = "EmptyString"
    /\ ret.call.name = ""
    /\ ret.call.id \in Ids
    /\ agents[CallerKey(ret.call)].exists

-----------------------------------------------------------------------------
\* C26 -- Agent records are immutable after registration: in every reachable
\* state every existing agent has reputation 10000, its owner is the
\* principal that registered it (the account of its key, the owner of its
\* entry in the registration log, logged at createdAt), and no operation
\* changes a field of an existing agent or deletes it.  (The revert of a
\* call restores the agents as they were when the call was made.)
C26_AgentsImmutable ==
    /\ [](\A k \in Keys :
            agents[k].exists
            => /\ agents[k].reputation = 10000
               /\ agents[k].owner = k[1]
               /\ agents[k].agentId = k[2]
               /\ \E i \in 1..Len(agentRegisteredHistory) :
                     agentRegisteredHistory[i] =
                        [owner |-> agents[k].owner, agentId |-> agents[k].agentId,
                         timestamp |-> agents[k].createdAt])
    /\ [][ \A k \in Keys :
              agents[k].exists
              => IF RevertStep THEN agents'[k] = Top.snap.agents[k]
                 ELSE agents'[k] = agents[k] ]_vars

\* an agent registered a lock period ago, a capsule created since, and a
\* second registration of the agent has failed
C26_Witness ==
    /\ ret.call.op = "registerAgent"
    /\ ret.err = "Agent already exists"
    /\ agents[CallerKey(ret.call)].exists
    /\ agents[CallerKey(ret.call)].createdAt < now
    /\ agents[CallerKey(ret.call)].reputation = 10000
    /\ \E k \in Keys : capsules[k].exists

-----------------------------------------------------------------------------
(* 8. VIEW FUNCTIONS (contract.sol 540-560) *)

\* getCapsulesByOwnerDetailed (contract.sol 540-549)
getCapsulesByOwnerDetailed(w, _owner) ==
    LET ids == w.ownerCapsules[_owner]
    IN  [i \in 1..Len(ids) |-> w.capsules[keccak256(_owner, ids[i])]]

\* getAgentsByOwnerDetailed (contract.sol 551-560)
getAgentsByOwnerDetailed(w, _owner) ==
    LET ids == w.ownerAgents[_owner]
    IN  [i \in 1..Len(ids) |-> w.agents[keccak256(_owner, ids[i])]]

\* the ids a principal has created, in the order of the creation log
CreatedBy(log, p) ==
    LET own == SelectSeq(log, LAMBDA e : CallerIn(e) = p)
    IN  [i \in 1..Len(own) |-> IdIn(own[i])]

\* the elements of a list
Listed(list) == {list[i] : i \in 1..Len(list)}

\* a list that holds no element twice
NoDuplicates(list) ==
    \A i \in 1..Len(list), j \in 1..Len(list) : list[i] = list[j] => i = j

\* C27 -- Owner lists: for every principal p, the owned-capsule list and
\* the owned-agent list of p are append-only (the revert of a call restores
\* them as they were when the call was made), hold each id at most once,
\* list the ids in creation order, and hold exactly the ids for which a
\* capsule (agent) record with creator (owner) p exists; so
\* getCapsulesByOwnerDetailed and getAgentsByOwnerDetailed return only
\* records with exists = TRUE.
C27_OwnerLists ==
    /\ [](\A p \in Addresses :
            /\ NoDuplicates(ownerCapsules[p])
            /\ NoDuplicates(ownerAgents[p])
            /\ ownerCapsules[p] = CreatedBy(capsuleCreatedHistory, p)
            /\ ownerAgents[p] = CreatedBy(agentRegisteredHistory, p)
            /\ {k \in Keys : capsules[k].exists /\ capsules[k].creator = p}
                  = {keccak256(p, id) : id \in Listed(ownerCapsules[p])}
            /\ {k \in Keys : agents[k].exists /\ agents[k].owner = p}
                  = {keccak256(p, id) : id \in Listed(ownerAgents[p])}
            /\ \A i \in 1..Len(ownerCapsules[p]) :
                  /\ getCapsulesByOwnerDetailed(World, p)[i].exists
                  /\ getCapsulesByOwnerDetailed(World, p)[i].creator = p
                  /\ getCapsulesByOwnerDetailed(World, p)[i].capsuleId = ownerCapsules[p][i]
            /\ \A i \in 1..Len(ownerAgents[p]) :
                  /\ getAgentsByOwnerDetailed(World, p)[i].exists
                  /\ getAgentsByOwnerDetailed(World, p)[i].owner = p
                  /\ getAgentsByOwnerDetailed(World, p)[i].agentId = ownerAgents[p][i])
    /\ [][ \A p \in Addresses :
              IF RevertStep
              THEN /\ ownerCapsules'[p] = Top.snap.ownerCapsules[p]
                   /\ ownerAgents'[p] = Top.snap.ownerAgents[p]
              ELSE /\ IsPrefix(ownerCapsules[p], ownerCapsules'[p])
                   /\ IsPrefix(ownerAgents[p], ownerAgents'[p]) ]_vars

\* one principal has created two capsules, another has registered an
\* agent, and creating one of the two capsules again has failed
C27_Witness ==
    \E p \in Addresses : \E q \in Addresses \ {p} :
        /\ Len(ownerCapsules[p]) = 2
        /\ Len(ownerAgents[q]) = 1
        /\ Len(getCapsulesByOwnerDetailed(World, p)) = 2
        /\ ret.call.op = "createCapsule"
        /\ ret.call.sender = p
        /\ ret.err = "Capsule already exists"

-----------------------------------------------------------------------------
-----------------------------------------------------------------------------
\* the value of all accounts other than the ledger
WalletsHeld == SumOver(wallet, Addresses)

\* C29 -- Solvency: in every reachable state, the states a reentrant call
\* meets during a value transfer included, the value the ledger holds is
\* the sum of totalStake over all capsules plus the sum of totalEarnings
\* over all capsules, value entering the ledger only through stake and
\* queryCapsule (what the accounts and the ledger hold together is
\* constant).
C29_Solvency ==
    /\ balance = StakesHeld + EarningsOwed
    /\ balance + WalletsHeld = Cardinality(Addresses) * InitialWallet

\* a reentrant call is possible (a refund waits in its transfer) while the
\* ledger holds a stake and earnings
C29_Witness ==
    /\ stack # <<>>
    /\ Top.call.op = "queryCapsule"
    /\ StakesHeld > 0
    /\ EarningsOwed > 0
    /\ balance = StakesHeld + EarningsOwed

-----------------------------------------------------------------------------
\* C30 -- unstake error precedence: the checks are applied in the order
\* zero amount (InsufficientPayment), no capsule at the key derived from the
\* caller (CapsuleNotFound), no stake record or amount > totalStake
\* (InsufficientStake), now < lockUntil (StakeLocked), and last the failure
\* of the transfer (TransferFailed); the first check violated gives the
\* error, so a request above the balance made while the stake is locked
\* reports InsufficientStake.  A call that passes all checks sends its value.
C30_UnstakeErrorPrecedence ==
    [][ /\ CallOf("unstake")
           => LET c == ret'.call
                  capsule == capsules[CallerKey(c)]
                  userStake == CallerStake(c)
              IN  /\ ret'.err =
                        IF c.amount = 0 THEN "InsufficientPayment"
                        ELSE IF ~capsule.exists THEN "CapsuleNotFound"
                        ELSE IF ~userStake.exists \/ c.amount > capsule.totalStake
                             THEN "InsufficientStake"
                        ELSE IF now < userStake.lockUntil THEN "StakeLocked"
                        ELSE "pending"
                  /\ ret'.err # "pending" => World' = World
        /\ (ReturnOf("unstake") /\ ret'.err # "ok")
           => /\ ret'.err = "TransferFailed"
              /\ World' = Top.snap ]_vars

\* a request above the balance, made while the stake is locked, has failed
\* with InsufficientStake
C30_Witness ==
    /\ ret.call.op = "unstake"
    /\ ret.err = "InsufficientStake"
    /\ CallerStake(ret.call).exists
    /\ now < CallerStake(ret.call).lockUntil
    /\ capsules[CallerKey(ret.call)].totalStake > 0
    /\ ret.call.amount > capsules[CallerKey(ret.call)].totalStake

-----------------------------------------------------------------------------
\* C31 -- Payout recipients: every value transfer of unstake or
\* withdrawEarnings is for a capsule of the caller's own and goes to the
\* caller, the capsule's creator; totalStake and the earnings of a capsule
\* decrease only in such a call of its creator, by the value sent (or in the
\* revert of a call, which restores what was there when the call was made);
\* an account other than the caller receives nothing in any call; an
\* unstake by an account that has no capsule of that id fails, and its
\* withdrawEarnings fails with InsufficientPayment, both changing nothing.
C31_PayoutRecipients ==
    [][ /\ (CallStep /\ ret'.err = "pending"
                     /\ ret'.call.op \in {"unstake", "withdrawEarnings"})
           => LET c == ret'.call
                  k == CallerKey(c)
                  f == stack'[Len(stack')]
              IN  /\ capsules[k].exists
                  /\ capsules[k].creator = c.sender
                  /\ wallet'[c.sender] = wallet[c.sender] + f.pay
                  /\ f.pay = IF c.op = "unstake"
                             THEN capsules[k].totalStake - capsules'[k].totalStake
                             ELSE earnings[k].totalEarnings - earnings'[k].totalEarnings
        /\ \A k \in Keys :
              (\/ capsules'[k].totalStake < capsules[k].totalStake
               \/ capsules'[k].earnings < capsules[k].earnings
               \/ earnings'[k].totalEarnings < earnings[k].totalEarnings)
              => \/ /\ CallStep
                    /\ ret'.err = "pending"
                    /\ ret'.call.op \in {"unstake", "withdrawEarnings"}
                    /\ ret'.call.sender = k[1]
                    /\ CallerKey(ret'.call) = k
                 \/ RevertStep /\ World' = Top.snap
        /\ CallStep
           => \A a \in Addresses \ {ret'.call.sender} : wallet'[a] = wallet[a]
        /\ (CallOf("unstake") /\ ~capsules[CallerKey(ret'.call)].exists)
           => /\ ret'.err \in {"InsufficientPayment", "CapsuleNotFound"}
              /\ ret'.call.amount > 0 => ret'.err = "CapsuleNotFound"
              /\ World' = World
        /\ (CallOf("withdrawEarnings") /\ ~capsules[CallerKey(ret'.call)].exists)
           => /\ ret'.err = "InsufficientPayment"
              /\ World' = World ]_vars

\* an account that has no capsule of the id has tried to withdraw while
\* another creator's capsule of that id holds a stake and earnings
C31_Witness ==
    /\ ret.call.op = "withdrawEarnings"
    /\ ret.err = "InsufficientPayment"
    /\ ~capsules[CallerKey(ret.call)].exists
    /\ \E k \in Keys :
          /\ k[2] = ret.call.id
          /\ k[1] # ret.call.sender
          /\ capsules[k].totalStake > 0
          /\ earnings[k].totalEarnings > 0

-----------------------------------------------------------------------------
\* C32 -- Stake records are consistent with the registry: in every reachable
\* state, if a stake record exists for (capsule key, staker) then the
\* capsule at that key exists and the staker is its creator, the account of
\* the key; no stake record ever exists for another principal.
C32_StakeRecordsOfCreators ==
    \A k \in Keys, a \in Addresses :
        stakes[k][a].exists
        => /\ capsules[k].exists
           /\ capsules[k].creator = a
           /\ k[1] = a

\* a creator holds a stake record on its capsule, and the stake of another
\* account under the same id has failed: that account has no record
C32_Witness ==
    /\ ret.call.op = "stake"
    /\ ret.err = "CapsuleNotFound"
    /\ \E k \in Keys :
          /\ k[2] = ret.call.id
          /\ k[1] # ret.call.sender
          /\ stakes[k][k[1]].exists
          /\ ~stakes[k][ret.call.sender].exists
    /\ ~CallerStake(ret.call).exists

-----------------------------------------------------------------------------
\* C33 -- Earnings records exist only for real capsules: in every reachable
\* state an earnings record that is not empty (totalEarnings > 0 or
\* queryCount > 0) is at a key at which a capsule exists; withdrawEarnings
\* on a capsule id the caller never created fails with InsufficientPayment
\* and writes no capsule and no earnings record.
C33_EarningsOfRealCapsules ==
    /\ [](\A k \in Keys :
            (earnings[k].totalEarnings > 0 \/ earnings[k].queryCount > 0)
            => capsules[k].exists)
    /\ [][ (/\ CallOf("withdrawEarnings")
            /\ \A i \in 1..Len(capsuleCreatedHistory) :
                  ~(/\ capsuleCreatedHistory[i].creator = ret'.call.sender
                    /\ capsuleCreatedHistory[i].capsuleId = ret'.call.id))
           => /\ ret'.err = "InsufficientPayment"
              /\ capsules' = capsules
              /\ earnings' = earnings
              /\ capsules'[CallerKey(ret'.call)] = NoCapsule
              /\ earnings'[CallerKey(ret'.call)] = NoEarnings ]_vars

\* a capsule has been queried, and an account that never created a capsule
\* of that id has tried to withdraw: nothing is recorded at its key
C33_Witness ==
    /\ ret.call.op = "withdrawEarnings"
    /\ ret.err = "InsufficientPayment"
    /\ capsules[CallerKey(ret.call)] = NoCapsule
    /\ earnings[CallerKey(ret.call)] = NoEarnings
    /\ \E k \in Keys :
          /\ k[2] = ret.call.id
          /\ capsules[k].exists
          /\ earnings[k].queryCount > 0

-----------------------------------------------------------------------------
\* the (creator, id) pair a call is addressed to: queryCapsule names the
\* creator, every other function is addressed to a record of the caller
Addressed(c) == <<c.creator, c.id>>

\* C34 -- Key isolation: a principal can create a capsule (register an
\* agent) under an id whatever the other principals have created under the
\* same id string, and every operation addressed to one (creator, id) pair
\* leaves the capsule and agent record, the stake and the earnings of every
\* other pair unchanged, and the owner lists of every other principal
\* unchanged (in the lists of the pair's principal the entries of its
\* other ids stay).  When a call has waited in its transfer, its end adds
\* nothing to any record, and its revert restores all records as they were
\* when it was made.
C34_KeyIsolation ==
    [][ /\ CallStep
           => LET c == ret'.call
              IN  /\ \A k \in Keys \ {Addressed(c)} :
                        /\ capsules'[k] = capsules[k]
                        /\ agents'[k] = agents[k]
                        /\ stakes'[k] = stakes[k]
                        /\ earnings'[k] = earnings[k]
                  /\ \A p \in Addresses \ {c.creator} :
                        /\ ownerCapsules'[p] = ownerCapsules[p]
                        /\ ownerAgents'[p] = ownerAgents[p]
                  /\ \A p \in Addresses :
                        /\ IsPrefix(ownerCapsules[p], ownerCapsules'[p])
                        /\ IsPrefix(ownerAgents[p], ownerAgents'[p])
                  /\ c.op # "registerAgent" => agents' = agents
                  /\ c.op = "registerAgent" => capsules' = capsules
        /\ (CallOf("createCapsule")
              /\ Addressed(ret'.call) \in Keys
              /\ ret'.call.amount >= MIN_PRICE_PER_QUERY
              /\ ret'.call.amount <= MAX_PRICE_PER_QUERY
              /\ ~capsules[Addressed(ret'.call)].exists)
           => /\ ret'.err = "ok"
              /\ capsules'[Addressed(ret'.call)].exists
              /\ capsules'[Addressed(ret'.call)].creator = ret'.call.sender
        /\ (CallOf("registerAgent")
              /\ Addressed(ret'.call) \in Keys
              /\ ret'.call.name \in Names
              /\ ~agents[Addressed(ret'.call)].exists)
           => /\ ret'.err = "ok"
              /\ agents'[Addressed(ret'.call)].exists
              /\ agents'[Addressed(ret'.call)].owner = ret'.call.sender
        /\ ReturnStep
           => IF ret'.err = "ok"
              THEN /\ capsules' = capsules
                   /\ agents' = agents
                   /\ stakes' = stakes
                   /\ earnings' = earnings
                   /\ ownerCapsules' = ownerCapsules
                   /\ ownerAgents' = ownerAgents
              ELSE World' = Top.snap ]_vars

\* two principals have each created a capsule under the same id; one of
\* them holds a stake and earnings, the other neither
C34_Witness ==
    \E id \in CapsuleIds : \E p \in Addresses : \E q \in Addresses \ {p} :
        /\ capsules[<<p, id>>].exists
        /\ capsules[<<q, id>>].exists
        /\ capsules[<<p, id>>].totalStake > 0
        /\ earnings[<<p, id>>].totalEarnings > 0
        /\ capsules[<<q, id>>].totalStake = 0
        /\ earnings[<<q, id>>] = NoEarnings
        /\ ~stakes[<<q, id>>][q].exists
        /\ ownerCapsules[p] = <<id>>
        /\ ownerCapsules[q] = <<id>>

-----------------------------------------------------------------------------
\* a step of the function op itself: its call, or its end after its value
\* transfer was accepted
StepOf(op) == CallOf(op) \/ (ReturnOf(op) /\ ret'.err = "ok")

\* C35 -- The stake pool and the earnings pool are independent: unstake
\* never changes a capsule's earnings, totalEarnings or queryCount (nor
\* lastUpdated); withdrawEarnings never changes totalStake, price,
\* updatedAt, queryCount or a stake record; queryCapsule never changes
\* totalStake, price, updatedAt or a stake record.
C35_PoolsIndependent ==
    [][ /\ StepOf("unstake")
           => /\ earnings' = earnings
              /\ \A k \in Keys : capsules'[k].earnings = capsules[k].earnings
        /\ StepOf("withdrawEarnings")
           => /\ stakes' = stakes
              /\ \A k \in Keys :
                    /\ capsules'[k].totalStake = capsules[k].totalStake
                    /\ capsules'[k].price = capsules[k].price
                    /\ capsules'[k].updatedAt = capsules[k].updatedAt
                    /\ earnings'[k].queryCount = earnings[k].queryCount
        /\ StepOf("queryCapsule")
           => /\ stakes' = stakes
              /\ \A k \in Keys :
                    /\ capsules'[k].totalStake = capsules[k].totalStake
                    /\ capsules'[k].price = capsules[k].price
                    /\ capsules'[k].updatedAt = capsules[k].updatedAt ]_vars

\* a capsule with a stake was queried and, a lock period later, its
\* earnings were withdrawn: the stake, its record and updatedAt are those
\* of the deposit, the count is that of the query
C35_Witness ==
    /\ stack = <<>>
    /\ ret.call.op = "withdrawEarnings"
    /\ ret.err = "ok"
    /\ Len(stakedOnCapsuleHistory) = 1
    /\ now > stakedOnCapsuleHistory[1].timestamp
    /\ capsules[CallerKey(ret.call)].totalStake = stakedOnCapsuleHistory[1].amount
    /\ capsules[CallerKey(ret.call)].updatedAt = stakedOnCapsuleHistory[1].timestamp
    /\ CallerStake(ret.call).stakedAt = stakedOnCapsuleHistory[1].timestamp
    /\ earnings[CallerKey(ret.call)].queryCount = 1
    /\ earnings[CallerKey(ret.call)].totalEarnings = 0

-----------------------------------------------------------------------------
\* the deposits logged for the capsule at key k
DepositsOf(k) ==
    Len(SelectSeq(stakedOnCapsuleHistory,
                  LAMBDA e : e.staker = k[1] /\ e.capsuleId = k[2]))

\* unstake of the whole totalStake by the creator passes every check now,
\* the ledger can pay it, and with the transfer accepted it ends with
\* totalStake = 0
Recoverable(k) ==
    LET T == capsules[k].totalStake
        c == Call("unstake", k[1], k[1], k[2], "", T, 0)
        r == unstake(World, k[1], k[2], T, now)
    IN  /\ T > 0
        /\ r.err = "ok"
        /\ r.pay = T
        /\ r.w.balance >= T
        /\ Logging(Send(r.w, k[1], T), c, 0, T, now).capsules[k].totalStake = 0

\* C36 -- Staked collateral is eventually recoverable: the timestamp
\* advancing and the creator making no further deposit, for every capsule
\* with totalStake > 0 a state is reached in which unstake of the whole
\* totalStake by the creator is enabled and, the creator accepting the
\* transfer, succeeds and leaves totalStake = 0.
C36_StakeRecoverable ==
    \A k \in Keys : \A n \in 1..MaxOps :
        (capsules[k].totalStake > 0 /\ DepositsOf(k) = n)
           ~> (Recoverable(k) \/ DepositsOf(k) # n)

\* a stake was unstaked whole by its creator, a lock period or more after
\* its last deposit
C36_Witness ==
    /\ stack = <<>>
    /\ ret.call.op = "unstake"
    /\ ret.err = "ok"
    /\ DepositsOf(CallerKey(ret.call)) >= 1
    /\ ret.call.amount = Deposited(CallerKey(ret.call))
    /\ capsules[CallerKey(ret.call)].totalStake = 0
    /\ now >= LastDepositAt(stakedOnCapsuleHistory, ret.call.sender, ret.call.id)
                 + LOCK_PERIOD_SECONDS

-----------------------------------------------------------------------------
\* the queryCapsule calls on the capsule at key k that wait in the refund
\* of the excess: counted at line 408, not yet logged
RECURSIVE QueriesInTransfer(_, _)
QueriesInTransfer(s, k) ==
    IF s = <<>> THEN 0
    ELSE QueriesInTransfer(SubSeq(s, 1, Len(s) - 1), k)
         + (IF s[Len(s)].call.op = "queryCapsule" /\ KeyOf(s[Len(s)].call) = k
            THEN 1 ELSE 0)

\* the entries of the query log for the capsule id of key k (the log does
\* not name the creator)
QueriesLogged(k) ==
    Len(SelectSeq(capsuleQueriedHistory, LAMBDA e : e.capsuleId = k[2]))

\* C37 -- queryCount is a lifetime counter: for every capsule it is the
\* number of successful queryCapsule calls on the capsule since its
\* creation (plus the calls that wait in their refund, which have been
\* counted and are undone if the refund fails); it never decreases but by
\* such a revert, and withdrawEarnings does not reset it: it zeroes
\* totalEarnings and Capsule.earnings only and leaves lastUpdated as it is.
C37_QueryCountLifetime ==
    /\ [](/\ earnings[CapA].queryCount
                = QueriesLogged(CapA) + QueriesInTransfer(stack, CapA)
          /\ \A k \in Keys \ {CapA} : earnings[k].queryCount = 0)
    /\ [][ /\ \A k \in Keys :
                IF RevertStep
                THEN earnings'[k].queryCount = Top.snap.earnings[k].queryCount
                ELSE earnings'[k].queryCount >= earnings[k].queryCount
           /\ StepOf("withdrawEarnings")
              => \A k \in Keys :
                    /\ earnings'[k].queryCount = earnings[k].queryCount
                    /\ earnings'[k].lastUpdated = earnings[k].lastUpdated
           /\ (CallOf("withdrawEarnings") /\ ret'.err = "pending")
              => /\ earnings'[CallerKey(ret'.call)].totalEarnings = 0
                 /\ capsules'[CallerKey(ret'.call)].earnings = 0 ]_vars

\* a query, a withdrawal of its earnings, and a second query: the count is
\* 2, the earnings are one price, lastUpdated is the time of the second
C37_Witness ==
    /\ stack = <<>>
    /\ ret.call.op = "queryCapsule"
    /\ ret.err = "ok"
    /\ Len(earningsWithdrawnHistory) = 1
    /\ earnings[CapA].queryCount = 2
    /\ earnings[CapA].totalEarnings = capsules[CapA].price
    /\ earnings[CapA].lastUpdated = now

-----------------------------------------------------------------------------
\* the sum of the numbers of a sequence
RECURSIVE SeqSum(_)
SeqSum(s) == IF s = <<>> THEN 0 ELSE s[Len(s)] + SeqSum(SubSeq(s, 1, Len(s) - 1))

QueriedLogTotal ==
    SeqSum([i \in 1..Len(capsuleQueriedHistory) |-> capsuleQueriedHistory[i].amountPaid])
WithdrawnLogTotal ==
    SeqSum([i \in 1..Len(earningsWithdrawnHistory) |-> earningsWithdrawnHistory[i].amount])
StakedLogTotal ==
    SeqSum([i \in 1..Len(stakedOnCapsuleHistory) |-> stakedOnCapsuleHistory[i].amount])
UnstakedLogTotal ==
    SeqSum([i \in 1..Len(unstakedFromCapsuleHistory) |-> unstakedFromCapsuleHistory[i].amount])

\* C38 -- Log/ledger reconciliation: in every reachable state between
\* operations (no call waits in a value transfer), the sum of amountPaid
\* over the capsule-queried log equals the sum of amount over the
\* earnings-withdrawn log plus the sum of totalEarnings over all capsules,
\* and the sum of the staked-log amounts minus the sum of the unstaked-log
\* amounts equals the sum of totalStake over all capsules.
C38_LogsReconcile ==
    stack = <<>>
    => /\ QueriedLogTotal = WithdrawnLogTotal + EarningsOwed
       /\ StakedLogTotal - UnstakedLogTotal = StakesHeld

\* between operations, after a stake, queries and a withdrawal: every log
\* that enters the sums has an entry and the ledger still holds the stake
C38_Witness ==
    /\ stack = <<>>
    /\ Len(stakedOnCapsuleHistory) >= 1
    /\ Len(capsuleQueriedHistory) >= 1
    /\ Len(earningsWithdrawnHistory) = 1
    /\ StakesHeld > 0
    /\ QueriedLogTotal = WithdrawnLogTotal
    /\ WithdrawnLogTotal > 0

=============================================================================
